---- MODULE Spec2Model ----
(***************************************************************************)
(* Model of the eberban semantics pipeline: the grammar parser's binding   *)
(* assembly (src/src/parser.rs) and the semantic translator to_expr        *)
(* (src/src/expr.rs).                                                      *)
(*                                                                         *)
(* A PredicateTree is a record with a kind field:                          *)
(*   [kind |-> "Leaf", word, chaining]                                     *)
(*   [kind |-> "Binding", chaining, root, negated, exposure, sharers, and] *)
(* sharers is a sequence (index 1 is argument place 0) of sets of          *)
(* [chaining, tree] pairs; and is a set of trees.                          *)
(* A Predicate is a record with a kind field, one shape per variant.       *)
(***************************************************************************)
EXTENDS Integers, Sequences, FiniteSets, TLC

(***************************************************************************)
(* Bounds of the model.                                                    *)
(***************************************************************************)
MaxSize == 7
MaxTokens == 6
MaxChars == 4

(***************************************************************************)
(* Spellings.  WordOrder lists them in the byte order of Rust's String     *)
(* comparison.                                                             *)
(***************************************************************************)
WordOrder == <<"dona", "ge", "ke">>
Words == {WordOrder[i] : i \in 1..Len(WordOrder)}
WordRank(w) == CHOOSE i \in 1..Len(WordOrder) : WordOrder[i] = w

Sharing == "Sharing"
Equivalence == "Equivalence"
PredicateChaining == {Sharing, Equivalence}
ChainingRank(c) == IF c = Sharing THEN 0 ELSE 1

ChainingBehavior(var, chain_with) == [var |-> var, chain_with |-> chain_with]

Standard == [kind |-> "Standard"]
Transparent == [kind |-> "Transparent"]
Modified(vec) == [kind |-> "Modified", vec |-> vec]
Explicit(vec) == [kind |-> "Explicit", vec |-> vec]
ExposureRank(e) ==
    CASE e.kind = "Standard" -> 0
      [] e.kind = "Transparent" -> 1
      [] e.kind = "Modified" -> 2
      [] e.kind = "Explicit" -> 3

(***************************************************************************)
(* PredicateTree constructors (expr.rs view: negated is a boolean).        *)
(***************************************************************************)
Leaf(word, chaining) == [kind |-> "Leaf", word |-> word, chaining |-> chaining]
Binding(chaining, root, negated, exposure, sharers, and) ==
    [kind |-> "Binding", chaining |-> chaining, root |-> root,
     negated |-> negated, exposure |-> exposure, sharers |-> sharers,
     and |-> and]

(***************************************************************************)
(* Predicate constructors.                                                 *)
(***************************************************************************)
PLeaf(word, id, apply_to) ==
    [kind |-> "Leaf", word |-> word, id |-> id, apply_to |-> apply_to]
PNot(pred) == [kind |-> "Not", pred |-> pred]
PAnd(preds) == [kind |-> "And", preds |-> preds]
PExists(vars, pred) == [kind |-> "Exists", vars |-> vars, pred |-> pred]
PEquivalent(var, pred) == [kind |-> "Equivalent", var |-> var, pred |-> pred]
PLambda(vars, pred) == [kind |-> "Lambda", vars |-> vars, pred |-> pred]

Range(s) == {s[i] : i \in 1..Len(s)}
Min2(a, b) == IF a < b THEN a ELSE b

(***************************************************************************)
(* The derived Ord of the tree types, which fixes the iteration order of   *)
(* the BTreeSets in sharers and and.  Each Cmp returns -1, 0 or 1.         *)
(***************************************************************************)
CmpInt(a, b) == IF a < b THEN -1 ELSE IF a > b THEN 1 ELSE 0
CmpBool(a, b) == CmpInt(IF a THEN 1 ELSE 0, IF b THEN 1 ELSE 0)
CmpWord(a, b) == CmpInt(WordRank(a), WordRank(b))
CmpChaining(a, b) ==
    IF a.var # b.var THEN CmpInt(a.var, b.var)
    ELSE CmpInt(ChainingRank(a.chain_with), ChainingRank(b.chain_with))

RECURSIVE CmpIntSeq(_, _)
CmpIntSeq(a, b) ==
    IF a = <<>> THEN (IF b = <<>> THEN 0 ELSE -1)
    ELSE IF b = <<>> THEN 1
    ELSE IF Head(a) # Head(b) THEN CmpInt(Head(a), Head(b))
    ELSE CmpIntSeq(Tail(a), Tail(b))

CmpName(a, b) ==
    IF a.word # b.word THEN CmpWord(a.word, b.word)
    ELSE CmpInt(ChainingRank(a.chain_with), ChainingRank(b.chain_with))

RECURSIVE CmpNameSeq(_, _)
CmpNameSeq(a, b) ==
    IF a = <<>> THEN (IF b = <<>> THEN 0 ELSE -1)
    ELSE IF b = <<>> THEN 1
    ELSE IF Head(a) # Head(b) THEN CmpName(Head(a), Head(b))
    ELSE CmpNameSeq(Tail(a), Tail(b))

CmpExposure(a, b) ==
    IF a.kind # b.kind THEN CmpInt(ExposureRank(a), ExposureRank(b))
    ELSE IF a.kind = "Modified" THEN CmpIntSeq(a.vec, b.vec)
    ELSE IF a.kind = "Explicit" THEN CmpNameSeq(a.vec, b.vec)
    ELSE 0

RECURSIVE CmpTree(_, _)
RECURSIVE CmpTreeSeq(_, _)
RECURSIVE CmpSharerSeq(_, _)
RECURSIVE CmpSharersVec(_, _)
RECURSIVE SortTrees(_)
RECURSIVE SortSharers(_)

CmpSharer(a, b) ==
    IF a.chaining # b.chaining
    THEN CmpInt(ChainingRank(a.chaining), ChainingRank(b.chaining))
    ELSE CmpTree(a.tree, b.tree)

\* The elements of a set of trees in ascending order (BTreeSet iteration).
SortTrees(set) ==
    IF set = {} THEN <<>>
    ELSE LET m == CHOOSE x \in set : \A y \in set : CmpTree(x, y) <= 0
         IN  <<m>> \o SortTrees(set \ {m})

\* The elements of a set of (chaining, tree) pairs in ascending order.
SortSharers(set) ==
    IF set = {} THEN <<>>
    ELSE LET m == CHOOSE x \in set : \A y \in set : CmpSharer(x, y) <= 0
         IN  <<m>> \o SortSharers(set \ {m})

CmpTreeSeq(a, b) ==
    IF a = <<>> THEN (IF b = <<>> THEN 0 ELSE -1)
    ELSE IF b = <<>> THEN 1
    ELSE IF Head(a) # Head(b) THEN CmpTree(Head(a), Head(b))
    ELSE CmpTreeSeq(Tail(a), Tail(b))

CmpSharerSeq(a, b) ==
    IF a = <<>> THEN (IF b = <<>> THEN 0 ELSE -1)
    ELSE IF b = <<>> THEN 1
    ELSE IF Head(a) # Head(b) THEN CmpSharer(Head(a), Head(b))
    ELSE CmpSharerSeq(Tail(a), Tail(b))

CmpSharersVec(a, b) ==
    IF a = <<>> THEN (IF b = <<>> THEN 0 ELSE -1)
    ELSE IF b = <<>> THEN 1
    ELSE IF Head(a) # Head(b)
         THEN CmpSharerSeq(SortSharers(Head(a)), SortSharers(Head(b)))
    ELSE CmpSharersVec(Tail(a), Tail(b))

CmpTree(a, b) ==
    IF a = b THEN 0
    ELSE IF a.kind # b.kind THEN (IF a.kind = "Leaf" THEN -1 ELSE 1)
    ELSE IF a.kind = "Leaf"
         THEN IF a.word # b.word THEN CmpWord(a.word, b.word)
              ELSE CmpChaining(a.chaining, b.chaining)
    ELSE IF a.chaining # b.chaining THEN CmpChaining(a.chaining, b.chaining)
    ELSE IF a.root # b.root THEN CmpTree(a.root, b.root)
    ELSE IF a.negated # b.negated THEN CmpBool(a.negated, b.negated)
    ELSE IF a.exposure # b.exposure THEN CmpExposure(a.exposure, b.exposure)
    ELSE IF a.sharers # b.sharers THEN CmpSharersVec(a.sharers, b.sharers)
    ELSE CmpTreeSeq(SortTrees(a.and), SortTrees(b.and))

(***************************************************************************)
(* Translation state shared by the whole walk (expr.rs:122-126): the       *)
(* counters max_var and max_id and the symbol_table, a function from the   *)
(* spellings present as keys to their stacks of identity-ids.  ok is FALSE *)
(* once the translation has aborted (a panic).  log is a history of the    *)
(* walk: it records what the code did and is never read by it.             *)
(***************************************************************************)
InitGlobals ==
    [max_var |-> 0, max_id |-> 0, symbol_table |-> <<>>, ok |-> TRUE,
     log |-> <<>>]

Last(s) == s[Len(s)]
ButLast(s) == SubSeq(s, 1, Len(s) - 1)
StackOf(symbol_table, w) ==
    IF w \in DOMAIN symbol_table THEN symbol_table[w] ELSE <<>>
Put(symbol_table, w, stack) ==
    [x \in (DOMAIN symbol_table) \cup {w} |->
        IF x = w THEN stack ELSE symbol_table[x]]

\* LeafLookup allocating an id at every lookup (insert instead of
\* or_insert_with).
LeafLookupFresh(symbol_table, max_id, word) ==
    [symbol_table |->
        Put(symbol_table, word,
            Append(IF word \in DOMAIN symbol_table THEN symbol_table[word]
                   ELSE <<>>, max_id)),
     max_id |-> max_id + 1, id |-> max_id, ok |-> TRUE]

\* expr.rs:160-168: entry(word).or_insert_with(|| vec![max_id++]).last().unwrap()
LeafLookup(symbol_table, max_id, word) ==
    IF word \notin DOMAIN symbol_table
    THEN [symbol_table |-> Put(symbol_table, word, <<max_id>>),
          max_id |-> max_id + 1, id |-> max_id, ok |-> TRUE]
    ELSE IF symbol_table[word] = <<>>
    THEN [symbol_table |-> symbol_table, max_id |-> max_id, id |-> 0,
          ok |-> FALSE]
    ELSE [symbol_table |-> symbol_table, max_id |-> max_id,
          id |-> Last(symbol_table[word]), ok |-> TRUE]

\* expr.rs:158-170: the Leaf arm of to_expr_.
TranslateLeaf(word, vars, orig_new_vars, orig_preds, g) ==
    LET r == LeafLookup(g.symbol_table, g.max_id, word)
    IN  IF ~r.ok
        THEN [new_vars |-> orig_new_vars, preds |-> orig_preds,
              g |-> [g EXCEPT !.ok = FALSE,
                        !.log = Append(@, [ev |-> "abort", word |-> word])]]
        ELSE [new_vars |-> orig_new_vars,
              preds |-> Append(orig_preds, PLeaf(word, r.id, vars)),
              g |-> [g EXCEPT !.symbol_table = r.symbol_table,
                              !.max_id = r.max_id,
                              !.log = Append(@, [ev |-> "leaf", word |-> word,
                                                 id |-> r.id,
                                                 apply_to |-> vars])]]

\* expr.rs:180-183
ChainPlace(exposure) ==
    IF exposure.kind = "Modified"
    THEN (IF exposure.vec = <<>> THEN 0 ELSE exposure.vec[1])
    ELSE 0

\* expr.rs:192-203: the map over 0..sharers.len(); acc is
\* [vars, close_over, new_vars, max_var].
RECURSIVE SharingMap(_, _, _, _, _)
SharingMap(i, n, chain_place, chain_var, acc) ==
    IF i >= n THEN acc
    ELSE IF i = chain_place
    THEN SharingMap(i + 1, n, chain_place, chain_var,
                    [acc EXCEPT !.vars = Append(@, chain_var)])
    ELSE SharingMap(i + 1, n, chain_place, chain_var,
                    [acc EXCEPT !.vars = Append(@, acc.max_var),
                                !.close_over = Append(@, acc.max_var),
                                !.max_var = @ + 1])

\* expr.rs:184-203: the Sharing branch; returns
\* [vars, close_over, new_vars, max_var], new_vars being orig_new_vars.
SharingVars(vars, n, chain_place, orig_new_vars, max_var) ==
    LET supplied == vars # <<>>
    IN  SharingMap(0, n, chain_place,
                   IF supplied THEN vars[1] ELSE max_var,
                   [vars |-> <<>>,
                    close_over |-> IF supplied THEN <<>> ELSE <<max_var>>,
                    new_vars |-> orig_new_vars,
                    max_var |-> IF supplied THEN max_var ELSE max_var + 1])

RECURSIVE EquivalencePadReusing(_, _)
\* EquivalencePad handing out max_var without advancing it.
EquivalencePadReusing(count, acc) ==
    IF count <= 0 THEN acc
    ELSE EquivalencePadReusing(count - 1,
                               [acc EXCEPT !.vars = Append(@, acc.max_var),
                                           !.new_vars = Append(@, acc.max_var)])

\* EquivalencePad not recording the fresh variables in new_vars.
RECURSIVE EquivalencePadUnrecorded(_, _)
EquivalencePadUnrecorded(count, acc) ==
    IF count <= 0 THEN acc
    ELSE EquivalencePadUnrecorded(count - 1,
                                  [acc EXCEPT !.vars = Append(@, acc.max_var),
                                              !.max_var = @ + 1])

\* expr.rs:204-211: the Equivalence branch; acc is
\* [vars, close_over, new_vars, max_var].
RECURSIVE EquivalencePad(_, _)
EquivalencePad(count, acc) ==
    IF count <= 0 THEN acc
    ELSE EquivalencePad(count - 1,
                        [acc EXCEPT !.vars = Append(@, acc.max_var),
                                    !.new_vars = Append(@, acc.max_var),
                                    !.max_var = @ + 1])

\* expr.rs:227-241: the predicate emitted for a declared name.
NameFact(word, chain_with, id, var) ==
    IF chain_with = Sharing
    THEN PLeaf(word, id, <<var>>)
    ELSE PEquivalent(var, PLeaf(word, id, <<>>))

\* NameVar without the swap: the name's predicate gets the fresh variable
\* and the node's list keeps the old one.
NameVarNoSwap(vars, i, fresh) ==
    [vars |-> vars, var |-> fresh, closed |-> i < Len(vars)]

\* expr.rs:214-222: the variable of a declared name.  fresh is the variable
\* just allocated; returns the node's variable list, the variable the
\* name's predicate is applied to, and where fresh is recorded.
NameVar(vars, i, fresh) ==
    IF i < Len(vars)
    THEN [vars |-> [vars EXCEPT ![i + 1] = fresh], var |-> vars[i + 1],
          closed |-> TRUE]
    ELSE [vars |-> vars, var |-> fresh, closed |-> FALSE]

\* expr.rs:226: symbol_table.entry(word).or_default().push(id)
PushShadow(symbol_table, word, id) ==
    Put(symbol_table, word, Append(StackOf(symbol_table, word), id))

\* PopShadow reading the top of the stack without removing it.
PopShadowPeek(symbol_table, word) == symbol_table

\* expr.rs:371: symbol_table.get_mut(word).unwrap().pop()
PopShadow(symbol_table, word) ==
    LET stack == symbol_table[word]
    IN  Put(symbol_table, word,
            IF stack = <<>> THEN stack ELSE ButLast(stack))

\* expr.rs:212-243: the loop over the declared names; acc is
\* [vars, close_over, new_vars, preds, g].
RECURSIVE ExplicitEntry(_, _, _)
ExplicitEntry(vec, i, acc) ==
    IF i >= Len(vec) THEN acc
    ELSE LET word == vec[i + 1].word
             chain_with == vec[i + 1].chain_with
             fresh == acc.g.max_var
             nv == NameVar(acc.vars, i, fresh)
             id == acc.g.max_id
         IN  ExplicitEntry(vec, i + 1,
               [vars |-> nv.vars,
                close_over |-> IF nv.closed THEN Append(acc.close_over, fresh)
                               ELSE acc.close_over,
                new_vars |-> IF nv.closed THEN acc.new_vars
                             ELSE Append(acc.new_vars, fresh),
                preds |-> Append(acc.preds,
                                 NameFact(word, chain_with, id, nv.var)),
                g |-> [acc.g EXCEPT
                         !.max_var = fresh + 1,
                         !.max_id = id + 1,
                         !.symbol_table = PushShadow(@, word, id),
                         !.log = Append(@, [ev |-> "push", word |-> word,
                                            id |-> id, index |-> i,
                                            var |-> nv.var, fresh |-> fresh,
                                            closed |-> nv.closed,
                                            place |-> nv.vars,
                                            below |-> StackOf(
                                              acc.g.symbol_table, word)])]])

\* ExplicitExit popping the first declared name only.
ExplicitExitFirst(vec, i, g) ==
    IF vec = <<>> THEN g
    ELSE [g EXCEPT !.symbol_table = PopShadow(@, vec[1].word),
                   !.log = Append(@, [ev |-> "pop", word |-> vec[1].word])]

\* expr.rs:369-373: the loop popping the declared names.
RECURSIVE ExplicitExit(_, _, _)
ExplicitExit(vec, i, g) ==
    IF i >= Len(vec) THEN g
    ELSE ExplicitExit(vec, i + 1,
           [g EXCEPT !.symbol_table = PopShadow(@, vec[i + 1].word),
                     !.log = Append(@, [ev |-> "pop",
                                        word |-> vec[i + 1].word])])

\* Conj wrapping a single predicate in And too.
ConjAlwaysAnd(preds) == PAnd(preds)

\* expr.rs:138-142, 292-296, 313-317, 354-358, 376-380
Conj(preds) == IF Len(preds) = 1 THEN preds[1] ELSE PAnd(preds)

\* EquivAssertion abstracting under every exposure.
EquivAssertionAlwaysLambda(transparent, var, p, free) ==
    PEquivalent(var, IF free = <<>> THEN p ELSE PLambda(free, p))

\* EquivAssertion never abstracting.
EquivAssertionNoLambda(transparent, var, p, free) == PEquivalent(var, p)

\* expr.rs:297-300 and 318-328: the assertion for an Equivalence child.
EquivAssertion(transparent, var, p, free) ==
    IF transparent THEN PEquivalent(var, p)
    ELSE PEquivalent(var, IF free = <<>> THEN p ELSE PLambda(free, p))

\* expr.rs:359-366: the conjunct appended for an and-sibling.
SiblingConjunct(p, free) ==
    IF free = <<>> THEN p ELSE PExists(free, p)

\* CloseNode never wrapping the conjunction in Not.
CloseNodeUnnegated(new_preds, new_new_vars, closure_needed, negated) ==
    IF closure_needed THEN PExists(new_new_vars, Conj(new_preds))
    ELSE Conj(new_preds)

\* expr.rs:375-395: the predicate the node appends to orig_preds.
CloseNode(new_preds, new_new_vars, closure_needed, negated) ==
    LET p == Conj(new_preds)
        q == IF closure_needed THEN PExists(new_new_vars, p) ELSE p
    IN  IF negated THEN PNot(q) ELSE q

Stacks(symbol_table, vec) ==
    [i \in 1..Len(vec) |-> StackOf(symbol_table, vec[i].word)]

\* expr.rs:245-252: the node's root, sharers and (when negated) siblings
\* write to buffers of the node's own.
Separate(close_over, negated) == close_over # <<>> \/ negated

RECURSIVE to_expr_(_, _, _, _, _, _)
RECURSIVE SharerSetLoop(_, _, _, _)
RECURSIVE SharersLoop(_, _, _, _, _)
RECURSIVE AndLoop(_, _)

\* expr.rs:278-330: what an Equivalence child leaves in the node's buffers;
\* r is [new_vars, preds, g] before the child, c what the child's call
\* returned.
EquivalenceChild(var, exposure, r, c) ==
    LET transparent == exposure.kind = "Transparent"
        free == IF transparent
                THEN SubSeq(c.new_vars, Len(r.new_vars) + 1, Len(c.new_vars))
                ELSE c.new_vars
        a == EquivAssertion(transparent, var, Conj(c.preds), free)
        scope == IF transparent THEN c.new_vars ELSE r.new_vars
    IN  [new_vars |-> scope,
         preds |-> Append(r.preds, a),
         g |-> IF c.g.ok
               THEN [c.g EXCEPT !.log = Append(@,
                       [ev |-> "equiv", exposure |-> exposure.kind,
                        var |-> var, free |-> free, child |-> Conj(c.preds),
                        assertion |-> a, before |-> r.new_vars,
                        scope |-> scope])]
               ELSE c.g]

\* expr.rs:266-332: the children attached to one place, in set order; r is
\* [new_vars, preds, g], and so is the result.
SharerSetLoop(items, var, exposure, r) ==
    IF items = <<>> \/ ~r.g.ok THEN r
    ELSE IF Head(items).chaining = Sharing
    THEN SharerSetLoop(Tail(items), var, exposure,
                       to_expr_(Head(items).tree, Sharing, <<var>>,
                                r.new_vars, r.preds, r.g))
    ELSE SharerSetLoop(Tail(items), var, exposure,
                       EquivalenceChild(var, exposure, r,
                         to_expr_(Head(items).tree, Equivalence, <<>>,
                                  IF exposure.kind = "Transparent"
                                  THEN r.new_vars ELSE <<>>,
                                  <<>>, r.g)))

RECURSIVE SharersLoopDescending(_, _, _, _, _)
\* SharersLoop taking the places from the highest to the lowest.
SharersLoopDescending(k, sharers, vars, exposure, r) ==
    IF k > Min2(Len(sharers), Len(vars)) \/ ~r.g.ok THEN r
    ELSE SharersLoopDescending(k + 1, sharers, vars, exposure,
           SharerSetLoop(
             SortSharers(sharers[Min2(Len(sharers), Len(vars)) + 1 - k]),
             vars[Min2(Len(sharers), Len(vars)) + 1 - k], exposure, r))

\* expr.rs:265: for (set, var) in sharers.into_iter().zip(vars); k counts
\* from 1.
SharersLoop(k, sharers, vars, exposure, r) ==
    IF k > Min2(Len(sharers), Len(vars)) \/ ~r.g.ok THEN r
    ELSE SharersLoop(k + 1, sharers, vars, exposure,
                     SharerSetLoop(SortSharers(sharers[k]), vars[k],
                                   exposure, r))

\* expr.rs:341-366: what an and-sibling leaves in preds; c is what the
\* sibling's call returned.  Returns [preds, g].
Sibling(preds, c) ==
    LET conjunct == SiblingConjunct(Conj(c.preds), c.new_vars)
    IN  [preds |-> Append(preds, conjunct),
         g |-> IF c.g.ok
               THEN [c.g EXCEPT !.log = Append(@,
                       [ev |-> "sibling", free |-> c.new_vars,
                        conjunct |-> conjunct])]
               ELSE c.g]

\* AndLoop handing the first sibling variable 0 as its argument list.
AndLoopSharedArgs(items, r) ==
    IF items = <<>> \/ ~r.g.ok THEN r
    ELSE AndLoop(Tail(items),
                 Sibling(r.preds,
                         to_expr_(Head(items), Equivalence, <<0>>, <<>>, <<>>,
                                  r.g)))

\* expr.rs:340-367: the and-siblings, in set order.  r is [preds, g].
AndLoop(items, r) ==
    IF items = <<>> \/ ~r.g.ok THEN r
    ELSE AndLoop(Tail(items),
                 Sibling(r.preds,
                         to_expr_(Head(items), Equivalence, <<>>, <<>>, <<>>,
                                  r.g)))

\* expr.rs:375-398: what the node leaves in orig_new_vars and orig_preds.
\* s2 is the node after its names are declared, r2 its buffers after the
\* sharers, r3 the siblings' buffer, g4 the shared state after the pops.
BindingResult(tree, orig_new_vars, orig_preds, s2, r2, r3, g4) ==
    IF ~g4.ok
    THEN [new_vars |-> orig_new_vars, preds |-> orig_preds, g |-> g4]
    ELSE IF Separate(s2.close_over, tree.negated)
    THEN [new_vars |-> s2.new_vars,
          preds |-> Append(IF tree.negated THEN s2.preds ELSE r3.preds,
                           CloseNode(IF tree.negated THEN r3.preds
                                     ELSE r2.preds,
                                     r2.new_vars, s2.close_over # <<>>,
                                     tree.negated)),
          g |-> g4]
    ELSE [new_vars |-> r2.new_vars, preds |-> r3.preds, g |-> g4]

\* The exit of an Explicit node in the history.
LogExit(vec, entered, g) ==
    [g EXCEPT !.log = Append(@, [ev |-> "exit", entered |-> entered,
                                 names |-> vec,
                                 stacks |-> Stacks(g.symbol_table, vec)])]

\* The end of a Binding node in the history (expr.rs:375-396): whether the
\* node appends a predicate of its own to the caller's scope, and which.
LogClose(tree, entered, s2, r2, r3, g) ==
    IF ~g.ok THEN g
    ELSE [g EXCEPT !.log = Append(@,
            [ev |-> "close", entered |-> entered, negated |-> tree.negated,
             exposure |-> tree.exposure,
             appended |-> Separate(s2.close_over, tree.negated),
             pred |-> CloseNode(IF tree.negated THEN r3.preds ELSE r2.preds,
                                r2.new_vars, s2.close_over # <<>>,
                                tree.negated)])]

\* expr.rs:369-373 and what follows.
BindingExit(tree, orig_new_vars, orig_preds, entered, s2, r2, r3) ==
    BindingResult(tree, orig_new_vars, orig_preds, s2, r2, r3,
                  LogClose(tree, entered, s2, r2, r3,
                    IF tree.exposure.kind = "Explicit" /\ r3.g.ok
                    THEN LogExit(tree.exposure.vec, entered,
                                 ExplicitExit(tree.exposure.vec, 0, r3.g))
                    ELSE r3.g))

\* expr.rs:335-367 and what follows: the siblings are appended to new_preds
\* when the node is negated and to orig_preds otherwise.
BindingAnd(tree, orig_new_vars, orig_preds, entered, s2, r2) ==
    BindingExit(tree, orig_new_vars, orig_preds, entered, s2, r2,
                AndLoop(SortTrees(tree.and),
                        [preds |-> IF tree.negated THEN r2.preds
                                   ELSE IF s2.close_over # <<>>
                                   THEN s2.preds ELSE r2.preds,
                         g |-> r2.g]))

\* expr.rs:245-333 and what follows: the root's call and the sharers.
BindingRoot(tree, orig_new_vars, orig_preds, entered, s2) ==
    BindingAnd(tree, orig_new_vars, orig_preds, entered, s2,
               SharersLoop(1, tree.sharers, s2.vars, tree.exposure,
                 to_expr_(tree.root, Equivalence, s2.vars,
                          IF Separate(s2.close_over, tree.negated)
                          THEN s2.close_over ELSE s2.new_vars,
                          IF Separate(s2.close_over, tree.negated)
                          THEN <<>> ELSE s2.preds,
                          s2.g)))

\* The entry of an Explicit node in the history.
LogEnter(tree, chaining_with, vars0, places, g) ==
    [g EXCEPT !.log = Append(@,
        [ev |-> "enter", names |-> tree.exposure.vec,
         stacks |-> Stacks(g.symbol_table, tree.exposure.vec),
         caller |-> chaining_with, supplied |-> vars0, places |-> places,
         root_leaf |-> tree.root.kind = "Leaf"])]

\* The call of a Binding node's root in the history (expr.rs:254-263):
\* the caller's mode and variables, the first variable free at the node's
\* entry, and the argument list the root is handed; s2 is the node after
\* its names are declared.
LogRoot(tree, chaining_with, vars0, fresh, s2) ==
    [s2 EXCEPT !.g.log = Append(@,
        [ev |-> "root", caller |-> chaining_with, supplied |-> vars0,
         fresh |-> fresh, next |-> s2.g.max_var, exposure |-> tree.exposure,
         places |-> Len(tree.sharers), negated |-> tree.negated,
         node |-> tree,
         close_over |-> s2.close_over, new_vars |-> s2.new_vars,
         apply_to |-> s2.vars])]

\* expr.rs:212-243 and what follows; s1 is [vars, close_over, new_vars,
\* max_var] after the caller's branch.
BindingNames(tree, chaining_with, vars0, orig_new_vars, orig_preds, g0, s1) ==
    BindingRoot(tree, orig_new_vars, orig_preds, Len(g0.log) + 1,
      LogRoot(tree, chaining_with, vars0, g0.max_var,
        IF tree.exposure.kind = "Explicit"
        THEN ExplicitEntry(tree.exposure.vec, 0,
               [vars |-> s1.vars, close_over |-> s1.close_over,
                new_vars |-> s1.new_vars, preds |-> orig_preds,
                g |-> LogEnter(tree, chaining_with, vars0, s1.vars,
                               [g0 EXCEPT !.max_var = s1.max_var])])
        ELSE [vars |-> s1.vars, close_over |-> s1.close_over,
              new_vars |-> s1.new_vars, preds |-> orig_preds,
              g |-> [g0 EXCEPT !.max_var = s1.max_var]]))

\* expr.rs:147-399.  Returns [new_vars, preds, g]: the contents of
\* orig_new_vars and orig_preds after the call, and the shared state.
to_expr_(tree, chaining_with, vars0, orig_new_vars, orig_preds, g0) ==
    IF ~g0.ok
    THEN [new_vars |-> orig_new_vars, preds |-> orig_preds, g |-> g0]
    ELSE IF tree.kind = "Leaf"
    THEN TranslateLeaf(tree.word, vars0, orig_new_vars, orig_preds, g0)
    ELSE BindingNames(tree, chaining_with, vars0, orig_new_vars, orig_preds,
           g0,
           IF chaining_with = Sharing
           THEN SharingVars(vars0, Len(tree.sharers),
                            ChainPlace(tree.exposure), orig_new_vars,
                            g0.max_var)
           ELSE EquivalencePad(Len(tree.sharers) - Len(vars0),
                               [vars |-> vars0, close_over |-> <<>>,
                                new_vars |-> orig_new_vars,
                                max_var |-> g0.max_var]))

\* expr.rs:121-145.  Returns the pair (pred, free); scope is the list preds
\* the pair's Predicate is assembled from, and the rest is the shared state
\* at the end of the walk.
to_expr(tree) ==
    LET r == to_expr_(tree, Equivalence, <<>>, <<>>, <<>>, InitGlobals)
    IN  [ok |-> r.g.ok, pred |-> Conj(r.preds), free |-> r.new_vars,
         scope |-> r.preds,
         log |-> r.g.log, max_var |-> r.g.max_var, max_id |-> r.g.max_id,
         symbol_table |-> r.g.symbol_table]

(***************************************************************************)
(* The parser's trees (parser.rs:13-28): Leaf as above,                    *)
(*   [kind |-> "Negation", negation, pred]                                 *)
(*   [kind |-> "Binding", chaining, root, negation, exposure, sharers, and]*)
(* with negation one of "None", "Short", "Long", "Both" (lib.rs:27-33).    *)
(***************************************************************************)
Negations == {"None", "Short", "Long", "Both"}

\* lib.rs:35-42
NegationNew(short, long) ==
    IF short THEN (IF long THEN "Both" ELSE "Short")
    ELSE (IF long THEN "Long" ELSE "None")
\* lib.rs:43-45
NegationShort(n) == n \in {"Short", "Both"}
\* lib.rs:46-48
NegationLong(n) == n \in {"Long", "Both"}
\* lib.rs:50-58
BitXor(a, b) ==
    NegationNew(NegationShort(a) # NegationShort(b),
                NegationLong(a) # NegationLong(b))

NegationNode(negation, pred) ==
    [kind |-> "Negation", negation |-> negation, pred |-> pred]
ParsedBinding(chaining, root, negation, exposure, sharers, and) ==
    [kind |-> "Binding", chaining |-> chaining, root |-> root,
     negation |-> negation, exposure |-> exposure, sharers |-> sharers,
     and |-> and]

RECURSIVE tree_chaining_behavior(_)
\* parser.rs:31-37
tree_chaining_behavior(t) ==
    IF t.kind = "Negation" THEN tree_chaining_behavior(t.pred)
    ELSE t.chaining

\* negate keeping a Negation node whose two negations cancel.
negateKeepsNode(t, orig_negation) ==
    IF orig_negation = "None" THEN t
    ELSE IF t.kind = "Leaf" THEN NegationNode(orig_negation, t)
    ELSE IF t.kind = "Negation"
    THEN NegationNode(BitXor(orig_negation, t.negation), t.pred)
    ELSE [t EXCEPT !.negation = BitXor(orig_negation, @)]

\* parser.rs:52-85
negate(t, orig_negation) ==
    IF orig_negation = "None" THEN t
    ELSE IF t.kind = "Leaf" THEN NegationNode(orig_negation, t)
    ELSE IF t.kind = "Negation"
    THEN LET negation == BitXor(orig_negation, t.negation)
         IN  IF negation = "None" THEN t.pred
             ELSE NegationNode(negation, t.pred)
    ELSE [t EXCEPT !.negation = BitXor(orig_negation, @)]

RECURSIVE to_binding(_)
\* parser.rs:38-51
to_binding(t) ==
    IF t.kind = "Binding" THEN t
    ELSE IF t.kind = "Negation" THEN negate(to_binding(t.pred), t.negation)
    ELSE ParsedBinding(tree_chaining_behavior(t), t, "None", Standard,
                       <<>>, {})

\* Option values.
None == [some |-> FALSE]
Some(x) == [some |-> TRUE, val |-> x]

\* lexer.rs:167-173
FiVarNone == [kind |-> "None"]
FiVarVar(v) == [kind |-> "Var", var |-> v]
FiVarSame == [kind |-> "Same"]
FiVarNext == [kind |-> "Next"]

\* lexer.rs:147-154
Vi(var, chain_with) == [kind |-> "Vi", var |-> var, chain_with |-> chain_with]
Fi(var, chain_with) == [kind |-> "Fi", var |-> var, chain_with |-> chain_with]

\* MarkerNegation negating as soon as one marker is present.
MarkerNegationAny(bi, zi) == NegationNew(zi >= 1, bi >= 1)

\* parser.rs:195: bi and zi are the numbers of markers read.
MarkerNegation(bi, zi) == NegationNew(zi % 2 = 1, bi % 2 = 1)

\* parser.rs:126-146: an element, s the optional si marker in front of p.
Element(s, p) ==
    IF ~s.some THEN p
    ELSE [to_binding(p) EXCEPT !.chaining = s.val.chaining,
                               !.exposure = s.val.exposure]

\* parser.rs:221-231: the place and mode a linker carries.
LinkerBinding(pf) ==
    IF pf.kind = "Vi"
    THEN [var |-> IF pf.var.some THEN FiVarVar(pf.var.val) ELSE FiVarNone,
          chain_with |-> pf.chain_with]
    ELSE [var |-> pf.var, chain_with |-> pf.chain_with]

\* GroupChild overriding the exposure only of a child that is a Binding
\* already.
GroupChildOfBinding(args, p) ==
    IF args.some /\ p.kind = "Binding"
    THEN [p EXCEPT !.exposure = Explicit(args.val)]
    ELSE p

\* parser.rs:232-253: the child of an attachment group.
GroupChild(args, p) ==
    IF args.some THEN [to_binding(p) EXCEPT !.exposure = Explicit(args.val)]
    ELSE p

RECURSIVE Flatten(_)
Flatten(b) == IF b = <<>> THEN <<>> ELSE Head(b) \o Flatten(Tail(b))

\* Children with the trailing tree at place 0 whatever the head's chaining.
ChildrenTrailingAtZero(chaining, b, r) ==
    LET items == Flatten(b)
    IN  (IF r.some
         THEN <<[var |-> FiVarVar(0),
                 chain_with |-> chaining.chain_with, p |-> r.val]>>
         ELSE <<>>)
        \o [k \in 1..Len(items) |->
              [var |-> LinkerBinding(items[k].pf).var,
               chain_with |-> LinkerBinding(items[k].pf).chain_with,
               p |-> GroupChild(items[k].args, items[k].p)]]

\* parser.rs:213-256: the trailing tree first, then the groups' items in
\* sentence order.
Children(chaining, b, r) ==
    LET items == Flatten(b)
    IN  (IF r.some
         THEN <<[var |-> FiVarVar(chaining.var),
                 chain_with |-> chaining.chain_with, p |-> r.val]>>
         ELSE <<>>)
        \o [k \in 1..Len(items) |->
              [var |-> LinkerBinding(items[k].pf).var,
               chain_with |-> LinkerBinding(items[k].pf).chain_with,
               p |-> GroupChild(items[k].args, items[k].p)]]

\* parser.rs:259-263
ResolvePlace(v, var) ==
    CASE var.kind \in {"Same", "None"} -> v
      [] var.kind = "Next" -> v + 1
      [] var.kind = "Var" -> var.var

RECURSIVE PadSharers(_, _)
\* parser.rs:267-269
PadSharers(sharers, v) ==
    IF Len(sharers) > v THEN sharers ELSE PadSharers(Append(sharers, {}), v)

RECURSIVE AttachChildren(_, _, _, _)
\* parser.rs:257-272: returns [sharers, and].
AttachChildren(children, v0, sharers, and) ==
    IF children = <<>> THEN [sharers |-> sharers, and |-> and]
    ELSE LET c == Head(children)
             v == ResolvePlace(v0, c.var)
         IN  IF c.var.kind = "None"
             THEN AttachChildren(Tail(children), v, sharers,
                                 and \cup {c.p})
             ELSE AttachChildren(Tail(children), v,
                    [PadSharers(sharers, v) EXCEPT ![v + 1] =
                        @ \cup {[chaining |-> c.chain_with, tree |-> c.p]}],
                    and)

\* BindingMap wrapping the element in a Binding in every case.
BindingMapAlwaysWraps(bi, zi, l, b, r) ==
    LET base == negate(to_binding(l), MarkerNegation(bi, zi))
        a == AttachChildren(Children(base.chaining, b, r), 0,
                            base.sharers, base.and)
    IN  [base EXCEPT !.sharers = a.sharers, !.and = a.and]

\* parser.rs:194-283: the tree of a binding production; bi and zi count the
\* markers read, l is the element, b the attachment groups, r the optional
\* trailing tree.
BindingMap(bi, zi, l, b, r) ==
    LET n == MarkerNegation(bi, zi)
        no_binding == b = <<>> /\ ~r.some
    IN  IF no_binding THEN negate(l, n)
        ELSE LET base == negate(to_binding(l), n)
                 a == AttachChildren(Children(base.chaining, b, r), 0,
                                     base.sharers, base.and)
             IN  [base EXCEPT !.sharers = a.sharers, !.and = a.and]

RECURSIVE Lower(_)
\* The tree to_expr_ matches on (expr.rs:171-178) for a parsed tree: a
\* Negation node is flattened into a Binding and negated holds when the
\* combined negation is not None.
Lower(t) ==
    IF t.kind = "Leaf" THEN t
    ELSE IF t.kind = "Negation" THEN Lower(to_binding(t))
    ELSE Binding(t.chaining, Lower(t.root), t.negation # "None", t.exposure,
                 [k \in 1..Len(t.sharers) |->
                    {[chaining |-> c.chaining, tree |-> Lower(c.tree)] :
                       c \in t.sharers[k]}],
                 {Lower(c) : c \in t.and})

RECURSIVE Nodes(_)
\* The number of nodes of a parsed tree.
Nodes(t) ==
    IF t.kind = "Leaf" THEN 1
    ELSE IF t.kind = "Negation" THEN 1 + Nodes(t.pred)
    ELSE LET RECURSIVE Sum(_)
             Sum(set) == IF set = {} THEN 0
                         ELSE LET x == CHOOSE y \in set : TRUE
                              IN  Nodes(x) + Sum(set \ {x})
         IN  1 + Nodes(t.root) + Sum(t.and)
               + Sum(UNION {{c.tree : c \in t.sharers[k]} :
                              k \in 1..Len(t.sharers)})

(***************************************************************************)
(* The translator's specification.  The input tree is assembled bottom-up  *)
(* on a stack, the way a caller of the public to_expr builds a             *)
(* PredicateTree value, and then translated once.  size counts the nodes,  *)
(* argument places, declared names, negations and exposure markers of the  *)
(* trees on the stack and is kept within MaxSize.                          *)
(***************************************************************************)
VARIABLES stack, size, phase, out, parse, pool, tokens, text, lexed, relexed

vars == <<stack, size, phase, out, parse, pool, tokens, text, lexed, relexed>>
tvars == <<stack, size, phase>>
pvars == <<parse, pool, tokens>>
lvars == <<text, lexed, relexed>>

\* The ChainingBehavior the tokens carry: a content root ending in a vowel
\* other than i (lexer.rs:491-495), a ki-particle standing in for a
\* predicate (parser.rs:100-105).
WordChaining(w) ==
    IF w = "dona" THEN ChainingBehavior(1, Sharing)
    ELSE ChainingBehavior(0, Sharing)

\* parser.rs:31-37
chaining_behavior(t) == t.chaining

\* The leaves of the input trees, and the names an argument list can
\* declare (parser.rs:166-170): a ki-particle with Sharing, a gi-particle
\* with Equivalence.
LeafWords == {"dona", "ke"}
Names == {[word |-> "ke", chain_with |-> Sharing],
          [word |-> "ge", chain_with |-> Equivalence]}
NameLists == {<<>>} \cup {<<a>> : a \in Names}
                 \cup {<<a, b>> : a, b \in Names}
ModifiedPlaces == {0, 1}
Exposures ==
    {Standard, Transparent}
        \cup {Modified(<<>>)} \cup {Modified(<<p>>) : p \in ModifiedPlaces}
        \cup {Explicit(v) : v \in NameLists}
ExposureSize(e) ==
    CASE e.kind = "Standard" -> 0
      [] e.kind = "Transparent" -> 1
      [] e.kind = "Modified" -> 1 + Len(e.vec)
      [] e.kind = "Explicit" -> IF e.vec = <<>> THEN 1 ELSE Len(e.vec)

Top == stack[Len(stack)]
Replace(t) == [stack EXCEPT ![Len(stack)] = t]
NoOutput == [ok |-> TRUE, pred |-> PAnd(<<>>), free |-> <<>>, log |-> <<>>,
             scope |-> <<>>,
             max_var |-> 0, max_id |-> 0, symbol_table |-> <<>>]

NoTree == [kind |-> "None"]
NoWords == [ok |-> FALSE, words |-> <<>>]
ParseStart ==
    [phase |-> "markers", bi |-> 0, zi |-> 0, s |-> None, p |-> NoTree,
     l |-> NoTree, b |-> <<>>, r |-> None, tree |-> NoTree]

Init ==
    /\ stack = <<>>
    /\ size = 0
    /\ phase = "build"
    /\ out = NoOutput
    /\ parse = ParseStart
    /\ pool = None
    /\ tokens = 0
    /\ text = <<>>
    /\ lexed = NoWords
    /\ relexed = NoWords

\* PredicateTree::Leaf(word)
PushLeaf(w) ==
    /\ phase = "build"
    /\ Len(stack) < 2
    /\ size + 1 <= MaxSize
    /\ stack' = Append(stack, Leaf(w, WordChaining(w)))
    /\ size' = size + 1
    /\ UNCHANGED <<phase, out, pvars, lvars>>

\* PredicateTree::Binding around the tree on top of the stack, with no
\* places and no siblings (parser.rs:42-49, with negated and exposure set).
MakeBinding(negated, exposure) ==
    /\ phase = "build"
    /\ stack # <<>>
    /\ size + 1 + ExposureSize(exposure) + (IF negated THEN 1 ELSE 0)
          <= MaxSize
    /\ stack' = Replace(Binding(chaining_behavior(Top), Top, negated,
                                exposure, <<>>, {}))
    /\ size' = size + 1 + ExposureSize(exposure) + (IF negated THEN 1 ELSE 0)
    /\ UNCHANGED <<phase, out, pvars, lvars>>

\* sharers.push(BTreeSet::new()) (parser.rs:267-269)
AddPlace ==
    /\ phase = "build"
    /\ stack # <<>>
    /\ Top.kind = "Binding"
    /\ size + 1 <= MaxSize
    /\ stack' = Replace([Top EXCEPT !.sharers = Append(@, {})])
    /\ size' = size + 1
    /\ UNCHANGED <<phase, out, pvars, lvars>>

\* sharers[v].insert((chain_with, p)) (parser.rs:270): the tree on top of
\* the stack becomes a child of the Binding below it.
Attach(v, chain_with) ==
    /\ phase = "build"
    /\ Len(stack) = 2
    /\ stack[1].kind = "Binding"
    /\ v < Len(stack[1].sharers)
    /\ stack' = <<[stack[1] EXCEPT !.sharers[v + 1] =
                     @ \cup {[chaining |-> chain_with, tree |-> stack[2]]}]>>
    /\ UNCHANGED <<size, phase, out, pvars, lvars>>

\* and.insert(p) (parser.rs:265)
AttachAnd ==
    /\ phase = "build"
    /\ Len(stack) = 2
    /\ stack[1].kind = "Binding"
    /\ stack' = <<[stack[1] EXCEPT !.and = @ \cup {stack[2]}]>>
    /\ UNCHANGED <<size, phase, out, pvars, lvars>>

\* to_expr(tree) (expr.rs:121-145)
Translate ==
    /\ phase = "build"
    /\ Len(stack) = 1
    /\ out' = to_expr(stack[1])
    /\ phase' = "done"
    /\ UNCHANGED <<stack, size, pvars, lvars>>

Next ==
    \/ \E w \in LeafWords : PushLeaf(w)
    \/ \E negated \in BOOLEAN, exposure \in Exposures :
          MakeBinding(negated, exposure)
    \/ AddPlace
    \/ \E v \in 0..MaxSize, chain_with \in PredicateChaining :
          Attach(v, chain_with)
    \/ AttachAnd
    \/ Translate

Spec == Init /\ [][Next]_vars

(***************************************************************************)
(* The parser's specification: one binding production (parser.rs:177-283)  *)
(* reads its tokens in sentence order -- the bi markers, the zi markers,   *)
(* the element, the attachment groups, the trailing tree -- and reduces    *)
(* them to a tree, which is translated or becomes a sub-tree of the next   *)
(* production.  tokens counts the tokens read and is kept within           *)
(* MaxTokens.                                                              *)
(***************************************************************************)
\* lexer.rs:296-343: sia, se.
SiMarkers ==
    {[exposure |-> Transparent, chaining |-> ChainingBehavior(1, Equivalence)],
     [exposure |-> Modified(<<0>>), chaining |-> ChainingBehavior(0, Sharing)]}
\* lexer.rs:345-369: va, vie, vi.
ViParticles ==
    {Vi(Some(1), Sharing), Vi(Some(0), Equivalence), Vi(None, Sharing)}
\* lexer.rs:370-431: feu, fai, fe, fi.
FiParticles ==
    {Fi(FiVarSame, Sharing), Fi(FiVarNext, Equivalence),
     Fi(FiVarVar(0), Sharing), Fi(FiVarNone, Sharing)}
\* parser.rs:162-172: no list, "ke be", "ge ke be".
ArgLists ==
    {None, Some(<<[word |-> "ke", chain_with |-> Sharing]>>),
     Some(<<[word |-> "ge", chain_with |-> Equivalence],
            [word |-> "ke", chain_with |-> Sharing]>>)}
ArgTokens(args) == IF args.some THEN Len(args.val) + 1 ELSE 0

\* The sub-trees a production can read: a word, or the tree of the
\* production reduced before it.
LeafTrees == {Leaf(w, WordChaining(w)) : w \in LeafWords}
SubTrees == LeafTrees \cup (IF pool.some THEN {pool.val} ELSE {})
SubTokens(p) == IF p \in LeafTrees THEN 1 ELSE 0
PoolAfter(p) == IF p \in LeafTrees THEN pool ELSE None

ParserInit ==
    /\ stack = <<>>
    /\ size = 0
    /\ phase = "parse"
    /\ out = NoOutput
    /\ parse = ParseStart
    /\ pool = None
    /\ tokens = 0
    /\ text = <<>>
    /\ lexed = NoWords
    /\ relexed = NoWords

\* parser.rs:174, 177-179: one more bi.
ReadBi ==
    /\ parse.phase = "markers"
    /\ parse.zi = 0
    /\ tokens + 1 <= MaxTokens
    /\ parse' = [parse EXCEPT !.bi = @ + 1]
    /\ tokens' = tokens + 1
    /\ UNCHANGED <<tvars, out, pool, lvars>>

\* parser.rs:175, 180: one more zi.
ReadZi ==
    /\ parse.phase = "markers"
    /\ tokens + 1 <= MaxTokens
    /\ parse' = [parse EXCEPT !.zi = @ + 1]
    /\ tokens' = tokens + 1
    /\ UNCHANGED <<tvars, out, pool, lvars>>

\* parser.rs:110-146, 181: the element, a word or a pe-delimited tree,
\* behind an optional si marker.
ReadElement(s, p) ==
    /\ parse.phase = "markers"
    /\ p \in SubTrees
    /\ tokens + 1 + (IF s.some THEN 1 ELSE 0) <= MaxTokens
    /\ parse' = [parse EXCEPT !.s = s, !.p = p, !.l = Element(s, p),
                               !.phase = "attach"]
    /\ tokens' = tokens + 1 + (IF s.some THEN 1 ELSE 0)
    /\ pool' = PoolAfter(p)
    /\ UNCHANGED <<tvars, out, lvars>>

\* parser.rs:183-184: a vi linker opens an attachment group.
ReadVi(pf, args, p) ==
    /\ parse.phase = "attach"
    /\ p \in SubTrees
    /\ tokens + 1 + ArgTokens(args) + SubTokens(p) <= MaxTokens
    /\ parse' = [parse EXCEPT !.b =
                    Append(@, <<[pf |-> pf, args |-> args, p |-> p]>>)]
    /\ tokens' = tokens + 1 + ArgTokens(args) + SubTokens(p)
    /\ pool' = PoolAfter(p)
    /\ UNCHANGED <<tvars, out, lvars>>

\* parser.rs:185-189: a fi linker continues the last group.
ReadFi(pf, args, p) ==
    /\ parse.phase = "attach"
    /\ parse.b # <<>>
    /\ p \in SubTrees
    /\ tokens + 1 + ArgTokens(args) + SubTokens(p) <= MaxTokens
    /\ parse' = [parse EXCEPT !.b[Len(parse.b)] =
                    Append(@, [pf |-> pf, args |-> args, p |-> p])]
    /\ tokens' = tokens + 1 + ArgTokens(args) + SubTokens(p)
    /\ pool' = PoolAfter(p)
    /\ UNCHANGED <<tvars, out, lvars>>

\* parser.rs:193: the trailing tree.
ReadTrailing(p) ==
    /\ parse.phase = "attach"
    /\ p \in SubTrees
    /\ tokens + SubTokens(p) <= MaxTokens
    /\ parse' = [parse EXCEPT !.r = Some(p), !.phase = "trailing"]
    /\ tokens' = tokens + SubTokens(p)
    /\ pool' = PoolAfter(p)
    /\ UNCHANGED <<tvars, out, lvars>>

\* parser.rs:194-283: the production's map.
Reduce ==
    /\ parse.phase \in {"attach", "trailing"}
    /\ parse' = [parse EXCEPT
                    !.tree = BindingMap(parse.bi, parse.zi, parse.l, parse.b,
                                        parse.r),
                    !.phase = "reduced"]
    /\ UNCHANGED <<tvars, out, pool, tokens, lvars>>

\* The reduced tree becomes a sub-tree of the enclosing production
\* (parser.rs:113-116, 184, 187, 193).
Nest ==
    /\ parse.phase = "reduced"
    /\ parse.tree \notin LeafTrees
    /\ ~pool.some
    /\ tokens < MaxTokens
    /\ pool' = Some(parse.tree)
    /\ parse' = ParseStart
    /\ UNCHANGED <<tvars, out, tokens, lvars>>

\* to_expr(tree) on the parsed sentence (bin/parser.rs:79-80).
TranslateParsed ==
    /\ parse.phase = "reduced"
    /\ ~pool.some
    /\ out' = to_expr(Lower(parse.tree))
    /\ parse' = [parse EXCEPT !.phase = "translated"]
    /\ UNCHANGED <<tvars, pool, tokens, lvars>>

ParserNext ==
    \/ ReadBi
    \/ ReadZi
    \/ \E s \in {None} \cup {Some(m) : m \in SiMarkers}, p \in SubTrees :
          ReadElement(s, p)
    \/ \E pf \in ViParticles, args \in ArgLists, p \in SubTrees :
          ReadVi(pf, args, p)
    \/ \E pf \in FiParticles, args \in ArgLists, p \in SubTrees :
          ReadFi(pf, args, p)
    \/ \E p \in SubTrees : ReadTrailing(p)
    \/ Reduce
    \/ Nest
    \/ TranslateParsed

ParserSpec == ParserInit /\ [][ParserNext]_vars

(***************************************************************************)
(* The lexer (lexer.rs).  A text is a sequence of characters, each a        *)
(* one-character string.  A parser applied to text s at index i returns    *)
(* [ok, pos, w]: whether it matched, the index after the match and the     *)
(* characters it yields.  choice takes the first alternative that matches, *)
(* repeated stops at the first iteration that fails.                       *)
(***************************************************************************)
\* lexer.rs:9-13
VOWELS == {"i", "e", "a", "o", "u"}
NON_SONORANT ==
    {"m", "p", "b", "f", "v", "t", "d", "s", "z", "c", "j", "k", "g"}
SONORANT == {"n", "r", "l"}
\* lexer.rs:14-84
INITIAL_PAIRS ==
    {<<"b", "z">>, <<"b", "j">>, <<"b", "r">>, <<"b", "l">>, <<"d", "z">>,
     <<"d", "j">>, <<"d", "r">>, <<"g", "z">>, <<"g", "j">>, <<"g", "n">>,
     <<"g", "r">>, <<"v", "l">>, <<"v", "z">>, <<"v", "j">>, <<"v", "n">>,
     <<"v", "r">>, <<"v", "l">>, <<"z", "b">>, <<"z", "d">>, <<"z", "g">>,
     <<"z", "v">>, <<"z", "m">>, <<"z", "n">>, <<"z", "r">>, <<"z", "l">>,
     <<"j", "b">>, <<"j", "d">>, <<"j", "g">>, <<"j", "v">>, <<"j", "m">>,
     <<"j", "n">>, <<"j", "r">>, <<"j", "l">>, <<"c", "f">>, <<"c", "k">>,
     <<"c", "t">>, <<"c", "p">>, <<"c", "m">>, <<"c", "n">>, <<"c", "r">>,
     <<"c", "l">>, <<"s", "f">>, <<"s", "k">>, <<"s", "t">>, <<"s", "p">>,
     <<"s", "m">>, <<"s", "n">>, <<"s", "r">>, <<"s", "l">>, <<"f", "c">>,
     <<"f", "s">>, <<"f", "n">>, <<"f", "r">>, <<"f", "l">>, <<"k", "c">>,
     <<"k", "s">>, <<"k", "n">>, <<"k", "r">>, <<"k", "l">>, <<"t", "c">>,
     <<"t", "s">>, <<"t", "r">>, <<"p", "c">>, <<"p", "s">>, <<"p", "r">>,
     <<"p", "l">>, <<"m", "n">>, <<"m", "r">>, <<"m", "l">>}
\* lexer.rs:85-122
MEDIAL_PAIRS ==
    {<<"b", "d">>, <<"b", "g">>, <<"b", "v">>, <<"b", "m">>, <<"d", "b">>,
     <<"d", "g">>, <<"d", "v">>, <<"d", "m">>, <<"g", "b">>, <<"g", "d">>,
     <<"g", "v">>, <<"g", "m">>, <<"v", "b">>, <<"v", "d">>, <<"v", "g">>,
     <<"v", "m">>, <<"f", "k">>, <<"f", "t">>, <<"f", "p">>, <<"f", "m">>,
     <<"k", "f">>, <<"k", "t">>, <<"k", "p">>, <<"k", "m">>, <<"t", "f">>,
     <<"t", "k">>, <<"t", "p">>, <<"t", "m">>, <<"p", "f">>, <<"p", "k">>,
     <<"p", "t">>, <<"p", "m">>, <<"n", "r">>, <<"n", "l">>, <<"r", "n">>,
     <<"l", "n">>}

\* lexer.rs:176, 181: the letters and c.to_ascii_uppercase().
Letters ==
    <<"h", "n", "r", "l", "m", "p", "b", "f", "v", "t", "d", "s", "z", "c",
      "j", "k", "g", "i", "e", "a", "o", "u">>
Capitals ==
    <<"H", "N", "R", "L", "M", "P", "B", "F", "V", "T", "D", "S", "Z", "C",
      "J", "K", "G", "I", "E", "A", "O", "U">>
to_ascii_uppercase(c) ==
    Capitals[CHOOSE k \in 1..Len(Letters) : Letters[k] = c]

Failed == [ok |-> FALSE, pos |-> 0, w |-> <<>>]
Matched(pos, w) == [ok |-> TRUE, pos |-> pos, w |-> w]
\* a.chain(b) and a.then(b) collecting both outputs, b being the result of
\* the second parser at a.pos.
Chain(a, b) ==
    IF a.ok /\ b.ok THEN Matched(b.pos, a.w \o b.w) ELSE Failed
\* a.then(P): P applied where a ended.
Then(a, P(_, _), s) == IF a.ok THEN Chain(a, P(s, a.pos)) ELSE Failed
\* a.then(P.or_not())
Optional(a, P(_, _), s) ==
    IF a.ok /\ P(s, a.pos).ok THEN Chain(a, P(s, a.pos)) ELSE a
\* A repetition before its first iteration: nothing matched at i.
Nothing(i) == Matched(i, <<>>)

RECURSIVE LetterRun(_, _, _)
\* lexer.rs:181-183: choice((just(c), just(upper))).repeated(); the index
\* after the run of c that starts at i.
LetterRun(c, s, i) ==
    IF i <= Len(s) /\ s[i] \in {c, to_ascii_uppercase(c)}
    THEN LetterRun(c, s, i + 1)
    ELSE i

\* lexer.rs:177-186: letter[&c], at least one c in either case, yielding c.
letter(c, s, i) ==
    IF LetterRun(c, s, i) > i THEN Matched(LetterRun(c, s, i), <<c>>)
    ELSE Failed

\* lexer.rs:189-191: choice over the letters of a class.
LetterOf(class, s, i) ==
    IF \E c \in class : letter(c, s, i).ok
    THEN letter(CHOOSE c \in class : letter(c, s, i).ok, s, i)
    ELSE Failed
vowel(s, i) == LetterOf(VOWELS, s, i)
non_sonorant(s, i) == LetterOf(NON_SONORANT, s, i)
sonorant(s, i) == LetterOf(SONORANT, s, i)

\* just(lit): the literal characters, as written.
just(lit, s, i) ==
    IF i + Len(lit) - 1 <= Len(s) /\ SubSeq(s, i, i + Len(lit) - 1) = lit
    THEN Matched(i + Len(lit), lit)
    ELSE Failed

\* lexer.rs:193-194: choice over the pairs of a table of
\* just(a).then(just(b)).
PairOf(table, s, i) ==
    IF i + 1 <= Len(s) /\ <<s[i], s[i + 1]>> \in table
    THEN Matched(i + 2, <<s[i], s[i + 1]>>)
    ELSE Failed
initial_pair(s, i) == PairOf(INITIAL_PAIRS, s, i)
medial_pair(s, i) == PairOf(MEDIAL_PAIRS, s, i)

RECURSIVE PauseEnd(_, _)
\* lexer.rs:187: whitespace or an apostrophe, repeated; the index after it.
PauseEnd(s, i) ==
    IF i <= Len(s) /\ s[i] \in {" ", "'"} THEN PauseEnd(s, i + 1) ELSE i

RECURSIVE Vowels(_, _)
\* vowel.repeated() from the result r on.
Vowels(s, r) ==
    IF vowel(s, r.pos).ok THEN Vowels(s, Chain(r, vowel(s, r.pos))) ELSE r
\* vowel.repeated().at_least(1)
vowels1(s, i) ==
    IF vowel(s, i).ok THEN Vowels(s, vowel(s, i)) ELSE Failed

\* lexer.rs:459-464
root_mix(s, i) ==
    IF medial_pair(s, i).ok THEN Then(medial_pair(s, i), vowels1, s)
    ELSE IF just(<<"h">>, s, i).ok THEN Then(just(<<"h">>, s, i), vowels1, s)
    ELSE Then(sonorant(s, i), vowels1, s)

\* lexer.rs:465-471
required_string(s, i) ==
    IF medial_pair(s, i).ok THEN Then(medial_pair(s, i), vowels1, s)
    ELSE Then(sonorant(s, i), vowels1, s)

RECURSIVE RootMixes(_, _)
\* root_mix.repeated() from the result r on.
RootMixes(s, r) ==
    IF r.ok /\ root_mix(s, r.pos).ok
    THEN RootMixes(s, Chain(r, root_mix(s, r.pos)))
    ELSE r

\* lexer.rs:475-482: choice((required_string,
\* root_mix.repeated().chain(required_string)))
RootBody(s, i) ==
    IF required_string(s, i).ok THEN required_string(s, i)
    ELSE Then(RootMixes(s, Nothing(i)), required_string, s)

\* lexer.rs:474-487: what follows the onset and the first vowels of a
\* nonsonorant_root.
RootTail(s, i) ==
    IF RootBody(s, i).ok
    THEN Optional(RootMixes(s, RootBody(s, i)), sonorant, s)
    ELSE sonorant(s, i)

\* lexer.rs:489-505: the ChainingBehavior of a nonsonorant_root spelled w.
RootChaining(w) ==
    IF Last(w) = "i" THEN ChainingBehavior(1, Equivalence)
    ELSE IF Last(w) \in VOWELS THEN ChainingBehavior(1, Sharing)
    ELSE ChainingBehavior(0, Sharing)

\* PairRootChaining without the rule for roots of three letters.
PairRootChainingByEnding(w) == RootChaining(w)

\* lexer.rs:518-534: the ChainingBehavior of an initial_pair_root spelled w.
PairRootChaining(w) ==
    IF Last(w) = "i" \/ Len(w) = 3 THEN ChainingBehavior(1, Equivalence)
    ELSE IF Last(w) \in VOWELS THEN ChainingBehavior(1, Sharing)
    ELSE ChainingBehavior(0, Sharing)

\* lexer.rs:128-140, 123-126: the classes of a Word.
Particle(family) == [kind |-> "Particle", family |-> family]
Predicate(family, chaining) ==
    [kind |-> "Predicate", family |-> family, chaining |-> chaining]
Word(word, class) == [word |-> word, class |-> class]

\* A parser of words returns [ok, pos, word].
NoWord == [ok |-> FALSE, pos |-> 0]
Lexed(r, class) ==
    IF r.ok THEN [ok |-> TRUE, pos |-> r.pos, word |-> Word(r.w, class)]
    ELSE NoWord

\* lexer.rs:472-507
nonsonorant_root(s, i) ==
    Then(Then(non_sonorant(s, i), vowels1, s), RootTail, s)

\* lexer.rs:508-537
initial_pair_root(s, i) ==
    Optional(RootMixes(s, Then(initial_pair(s, i), vowels1, s)), sonorant, s)

\* lexer.rs:538-540, after the pause.
root(s, i) ==
    IF nonsonorant_root(s, i).ok
    THEN Lexed(nonsonorant_root(s, i),
               Predicate("Root", RootChaining(nonsonorant_root(s, i).w)))
    ELSE Lexed(initial_pair_root(s, i),
               Predicate("Root", PairRootChaining(initial_pair_root(s, i).w)))

\* lexer.rs:142-165: the particle families without a payload.
Pe == [kind |-> "Pe"]
Pei == [kind |-> "Pei"]
Vei == [kind |-> "Vei"]
Ki == [kind |-> "Ki"]
Be == [kind |-> "Be"]
Other == [kind |-> "Other"]
Gi(chaining) == [kind |-> "Gi", chaining |-> chaining]
Mi(chaining) == [kind |-> "Mi", chaining |-> chaining]
Si(exposure, chaining) ==
    [kind |-> "Si", exposure |-> exposure, chaining |-> chaining]

\* a.or_not() at index i.
OrNothing(a, i) == IF a.ok THEN a ELSE Nothing(i)

\* lexer.rs:200-205: just('h').then(vowel.repeated().at_least(1))
h_vowels(s, i) == Then(just(<<"h">>, s, i), vowels1, s)

RECURSIVE HVowelRuns(_, _)
\* lexer.rs:200-206: the repetition of h_vowels from the result r on.
HVowelRuns(s, r) ==
    IF r.ok /\ h_vowels(s, r.pos).ok
    THEN HVowelRuns(s, Chain(r, h_vowels(s, r.pos)))
    ELSE r

\* lexer.rs:211-231: the family of a nonsonorant_particle spelled w.  The
\* onset is never the vowel i, so the first branch of Gi is never taken.
NonsonorantFamily(w) ==
    IF w[1] = "k" THEN Ki
    ELSE IF w[1] = "g"
    THEN Gi(IF w[1] = "i" THEN ChainingBehavior(0, Sharing)
            ELSE IF Last(w) = "i" THEN ChainingBehavior(1, Equivalence)
            ELSE ChainingBehavior(1, Sharing))
    ELSE Other

\* lexer.rs:196-235, after the pause.
NonsonorantSpelling(s, i) ==
    HVowelRuns(s, Then(non_sonorant(s, i), vowels1, s))
nonsonorant_particle(s, i) ==
    Lexed(NonsonorantSpelling(s, PauseEnd(s, i)),
          Particle(NonsonorantFamily(
                     NonsonorantSpelling(s, PauseEnd(s, i)).w)))

\* lexer.rs:243-245: choice((just('h'), sonorant)).then(vowels)
link_vowels(s, i) ==
    IF just(<<"h">>, s, i).ok THEN Then(just(<<"h">>, s, i), vowels1, s)
    ELSE Then(sonorant(s, i), vowels1, s)

RECURSIVE LinkVowelRuns(_, _)
\* lexer.rs:242-247: the repetition of link_vowels from the result r on.
LinkVowelRuns(s, r) ==
    IF r.ok /\ link_vowels(s, r.pos).ok
    THEN LinkVowelRuns(s, Chain(r, link_vowels(s, r.pos)))
    ELSE r

\* lexer.rs:237-240: choice((sonorant.then(vowel), vowel))
SonorantOrVowelOnset(s, i) ==
    IF Then(sonorant(s, i), vowel, s).ok THEN Then(sonorant(s, i), vowel, s)
    ELSE vowel(s, i)

\* lexer.rs:236-258: at least one character of pause in front.
sonorant_or_vowel_particle(s, i) ==
    IF PauseEnd(s, i) > i
    THEN Lexed(Optional(LinkVowelRuns(s, SonorantOrVowelOnset(
                                           s, PauseEnd(s, i))),
                        sonorant, s),
               Particle(Other))
    ELSE NoWord

\* lexer.rs:262-265: the spellings of mi, in the order they are tried.
MiSpellings ==
    <<<<"m", "a", "i">>, <<"m", "a", "o">>, <<"m", "u", "i">>,
      <<"m", "u", "e">>, <<"m", "u", "a">>, <<"m", "i", "o">>,
      <<"m", "i", "e">>, <<"m", "o", "e">>, <<"m", "a">>, <<"m", "i">>,
      <<"m", "o">>, <<"m", "e">>>>

RECURSIVE JustFirst(_, _, _, _)
\* choice(lits.map(just)) from the k-th literal on.
JustFirst(lits, k, s, i) ==
    IF k > Len(lits) THEN Failed
    ELSE IF just(lits[k], s, i).ok THEN just(lits[k], s, i)
    ELSE JustFirst(lits, k + 1, s, i)

\* lexer.rs:268-280
MiFamily(w) ==
    Mi(IF w = <<"m", "u", "a">> THEN ChainingBehavior(1, Equivalence)
       ELSE ChainingBehavior(0, Sharing))

\* lexer.rs:260-282
mi(s, i) ==
    Lexed(JustFirst(MiSpellings, 1, s, PauseEnd(s, i)),
          Particle(MiFamily(JustFirst(MiSpellings, 1, s, PauseEnd(s, i)).w)))

\* lexer.rs:284-295
ArgVowels == {"e", "a", "o", "u"}
ArgIndex(v) ==
    CASE v = "e" -> 0 [] v = "a" -> 1 [] v = "o" -> 2 [] v = "u" -> 3
arg_vowel(s, i) ==
    IF i <= Len(s) /\ s[i] \in ArgVowels THEN Matched(i + 1, <<s[i]>>)
    ELSE Failed

RECURSIVE ArgVowelRun(_, _)
\* arg_vowel.repeated() from the result r on.
ArgVowelRun(s, r) ==
    IF arg_vowel(s, r.pos).ok
    THEN ArgVowelRun(s, Chain(r, arg_vowel(s, r.pos)))
    ELSE r
\* lexer.rs:317-319: arg_vowel.repeated().at_least(1)
arg_vowels1(s, i) ==
    IF arg_vowel(s, i).ok THEN ArgVowelRun(s, arg_vowel(s, i)) ELSE Failed

\* lexer.rs:315, 320: just('h').ignore_then(arg_vowel), yielding the vowel.
h_arg(s, i) ==
    IF just(<<"h">>, s, i).ok /\ arg_vowel(s, i + 1).ok
    THEN Matched(i + 2, <<s[i + 1]>>)
    ELSE Failed

\* lexer.rs:323-342: the word of a si with listed places; vs, b and i are
\* the results of the three parts, b and i possibly empty.
SiModified(vs, b, i) ==
    [ok |-> TRUE, pos |-> i.pos,
     word |-> Word(<<"s">> \o vs.w \o b.w \o i.w,
       Particle(Si(Modified([k \in 1..Len(vs.w) |-> ArgIndex(vs.w[k])]),
                   ChainingBehavior(
                     IF b.w # <<>> THEN ArgIndex(b.w[1])
                     ELSE ArgIndex(Last(vs.w)),
                     IF i.w # <<>> THEN Equivalence ELSE Sharing))))]

\* lexer.rs:298-309: si and an arg_vowel.
si_transparent(s, i) ==
    IF just(<<"i">>, s, i).ok /\ arg_vowel(s, i + 1).ok
    THEN [ok |-> TRUE, pos |-> i + 2,
          word |-> Word(<<"s", "i", s[i + 1]>>,
                        Particle(Si(Transparent,
                                    ChainingBehavior(ArgIndex(s[i + 1]),
                                                     Equivalence))))]
    ELSE NoWord

\* lexer.rs:312-316: i, h and an arg_vowel, i.
si_h(s, i) ==
    IF just(<<"i">>, s, i).ok /\ h_arg(s, i + 1).ok
          /\ just(<<"i">>, s, i + 3).ok
    THEN SiModified(Nothing(i), h_arg(s, i + 1), just(<<"i">>, s, i + 3))
    ELSE NoWord

\* lexer.rs:317-321: the optional parts after the arg_vowels vs.
SiAfter(s, vs, b) ==
    SiModified(vs, b, OrNothing(just(<<"i">>, s, b.pos), b.pos))
si_places(s, i) ==
    IF arg_vowels1(s, i).ok
    THEN SiAfter(s, arg_vowels1(s, i),
                 OrNothing(h_arg(s, arg_vowels1(s, i).pos),
                           arg_vowels1(s, i).pos))
    ELSE NoWord

\* lexer.rs:296-343, after the pause and the s.
SiChoice(s, i) ==
    IF si_transparent(s, i).ok THEN si_transparent(s, i)
    ELSE IF si_h(s, i).ok THEN si_h(s, i)
    ELSE si_places(s, i)
si(s, i) ==
    IF just(<<"s">>, s, PauseEnd(s, i)).ok
    THEN SiChoice(s, PauseEnd(s, i) + 1)
    ELSE NoWord

\* lexer.rs:347-348, 409-410: just(c).then(just('i').or_not().then(arg_vowel))
linker_place(c, s, i) ==
    IF ~just(<<c>>, s, i).ok THEN Failed
    ELSE IF just(<<"i">>, s, i + 1).ok
    THEN Chain(just(<<c, "i">>, s, i), arg_vowel(s, i + 2))
    ELSE Chain(just(<<c>>, s, i), arg_vowel(s, i + 1))
\* lexer.rs:349-361, 411-423: the place and the mode such a linker carries.
LinkerPlace(w) == ArgIndex(Last(w))
LinkerMode(w) == IF Len(w) = 3 THEN Equivalence ELSE Sharing

\* lexer.rs:346-371, after the pause.
ViChoice(s, i) ==
    IF linker_place("v", s, i).ok
    THEN Lexed(linker_place("v", s, i),
               Particle(Vi(Some(LinkerPlace(linker_place("v", s, i).w)),
                           LinkerMode(linker_place("v", s, i).w))))
    ELSE Lexed(just(<<"v", "i">>, s, i), Particle(Vi(None, Sharing)))
vi(s, i) == ViChoice(s, PauseEnd(s, i))

\* lexer.rs:372-433, after the pause.
FiChoice(s, i) ==
    IF just(<<"f", "e", "u">>, s, i).ok
    THEN Lexed(just(<<"f", "e", "u">>, s, i),
               Particle(Fi(FiVarSame, Sharing)))
    ELSE IF just(<<"f", "a", "u">>, s, i).ok
    THEN Lexed(just(<<"f", "a", "u">>, s, i),
               Particle(Fi(FiVarNext, Sharing)))
    ELSE IF just(<<"f", "e", "i">>, s, i).ok
    THEN Lexed(just(<<"f", "e", "i">>, s, i),
               Particle(Fi(FiVarSame, Equivalence)))
    ELSE IF just(<<"f", "a", "i">>, s, i).ok
    THEN Lexed(just(<<"f", "a", "i">>, s, i),
               Particle(Fi(FiVarNext, Equivalence)))
    ELSE IF linker_place("f", s, i).ok
    THEN Lexed(linker_place("f", s, i),
               Particle(Fi(FiVarVar(LinkerPlace(linker_place("f", s, i).w)),
                           LinkerMode(linker_place("f", s, i).w))))
    ELSE Lexed(just(<<"f", "i">>, s, i), Particle(Fi(FiVarNone, Sharing)))
fi(s, i) == FiChoice(s, PauseEnd(s, i))

\* lexer.rs:433-446
vei(s, i) == Lexed(just(<<"v", "e", "i">>, s, PauseEnd(s, i)), Particle(Vei))
be(s, i) == Lexed(just(<<"b", "e">>, s, PauseEnd(s, i)), Particle(Be))
pe(s, i) == Lexed(just(<<"p", "e">>, s, PauseEnd(s, i)), Particle(Pe))
pei(s, i) == Lexed(just(<<"p", "e", "i">>, s, PauseEnd(s, i)), Particle(Pei))

\* lexer.rs:448
specific_particle(s, i) ==
    IF pei(s, i).ok THEN pei(s, i)
    ELSE IF pe(s, i).ok THEN pe(s, i)
    ELSE IF be(s, i).ok THEN be(s, i)
    ELSE IF vei(s, i).ok THEN vei(s, i)
    ELSE IF vi(s, i).ok THEN vi(s, i)
    ELSE IF fi(s, i).ok THEN fi(s, i)
    ELSE IF mi(s, i).ok THEN mi(s, i)
    ELSE si(s, i)

\* lexer.rs:450-458
particle(s, i) ==
    IF specific_particle(s, i).ok THEN specific_particle(s, i)
    ELSE IF nonsonorant_particle(s, i).ok THEN nonsonorant_particle(s, i)
    ELSE sonorant_or_vowel_particle(s, i)

\* lexer.rs:538-545
predicate(s, i) == root(s, PauseEnd(s, i))

\* lexer.rs:547
word(s, i) == IF predicate(s, i).ok THEN predicate(s, i) ELSE particle(s, i)

RECURSIVE WordRun(_, _, _)
\* lexer.rs:549: word.repeated(); returns [pos, words].
WordRun(s, i, acc) ==
    IF word(s, i).ok THEN WordRun(s, word(s, i).pos, Append(acc, word(s, i).word))
    ELSE [pos |-> i, words |-> acc]

\* lexer.rs:549: .then_ignore(pause.then(end())); r is what the repetition
\* returned.
AtEnd(s, r) ==
    [ok |-> PauseEnd(s, r.pos) = Len(s) + 1,
     words |-> IF PauseEnd(s, r.pos) = Len(s) + 1 THEN r.words ELSE <<>>]

\* lexer.rs:175-550: returns [ok, words].
lexer(s) == AtEnd(s, WordRun(s, 1, <<>>))

RECURSIVE Rendered(_)
\* The spellings of the words one after the other, a pause before each.
Rendered(words) ==
    IF words = <<>> THEN <<>>
    ELSE <<" ">> \o words[1].word \o Rendered(Tail(words))

(***************************************************************************)
(* The lexer's specification: a text of at most MaxChars characters of     *)
(* Alphabet is written, lexed, and the spellings of its words are lexed    *)
(* again.                                                                  *)
(***************************************************************************)
Alphabet == {"b", "r", "s", "h", "a", "e", "i", " ", "B"}

LexerInit ==
    /\ stack = <<>>
    /\ size = 0
    /\ phase = "text"
    /\ out = NoOutput
    /\ parse = ParseStart
    /\ pool = None
    /\ tokens = 0
    /\ text = <<>>
    /\ lexed = NoWords
    /\ relexed = NoWords

\* One more character of the input.
Type(c) ==
    /\ phase = "text"
    /\ Len(text) < MaxChars
    /\ text' = Append(text, c)
    /\ UNCHANGED <<stack, size, phase, out, pvars, lexed, relexed>>

\* lexer().parse(text) (bin/parser.rs)
Lex ==
    /\ phase = "text"
    /\ lexed' = lexer(text)
    /\ phase' = "lexed"
    /\ UNCHANGED <<stack, size, out, pvars, text, relexed>>

\* The lexer on the spellings of the words it produced.
Relex ==
    /\ phase = "lexed"
    /\ lexed.ok
    /\ relexed' = lexer(Rendered(lexed.words))
    /\ phase' = "relexed"
    /\ UNCHANGED <<stack, size, out, pvars, text, lexed>>

LexerNext ==
    \/ \E c \in Alphabet : Type(c)
    \/ Lex
    \/ Relex

LexerSpec == LexerInit /\ [][LexerNext]_vars

(***************************************************************************)
(* The specification of PredicateTree::negate (parser.rs:52-86): a tree of *)
(* at most MaxNodes nodes is built with the public constructors of         *)
(* PredicateTree, a Leaf first and Negation or Binding nodes around it,    *)
(* and negated.  stack holds the tree; pool remembers the tree a call of   *)
(* negate was given and its argument.                                      *)
(***************************************************************************)
MaxNodes == 3

NegateInit ==
    /\ stack = <<>>
    /\ size = 0
    /\ phase = "tree"
    /\ out = NoOutput
    /\ parse = ParseStart
    /\ pool = None
    /\ tokens = 0
    /\ text = <<>>
    /\ lexed = NoWords
    /\ relexed = NoWords

\* PredicateTree::Leaf(word)
NewLeaf(w) ==
    /\ stack = <<>>
    /\ stack' = <<Leaf(w, WordChaining(w))>>
    /\ size' = 1
    /\ UNCHANGED <<phase, out, pvars, lvars>>

\* PredicateTree::Negation { negation, pred }
WrapNegation(negation) ==
    /\ stack # <<>>
    /\ size < MaxNodes
    /\ stack' = <<NegationNode(negation, stack[1])>>
    /\ size' = size + 1
    /\ phase' = "tree"
    /\ UNCHANGED <<out, pvars, lvars>>

\* PredicateTree::Binding { root, negation, .. } without children
WrapBinding(negation) ==
    /\ stack # <<>>
    /\ size < MaxNodes
    /\ stack' = <<ParsedBinding(tree_chaining_behavior(stack[1]), stack[1],
                                negation, Standard, <<>>, {})>>
    /\ size' = size + 1
    /\ phase' = "tree"
    /\ UNCHANGED <<out, pvars, lvars>>

\* tree.negate(a)
Negate(a) ==
    /\ stack # <<>>
    /\ stack' = <<negate(stack[1], a)>>
    /\ pool' = Some([t |-> stack[1], a |-> a])
    /\ phase' = "negated"
    /\ UNCHANGED <<size, out, parse, tokens, lvars>>

NegateNext ==
    \/ \E w \in LeafWords : NewLeaf(w)
    \/ \E negation \in Negations : WrapNegation(negation)
    \/ \E negation \in Negations : WrapBinding(negation)
    \/ \E a \in Negations : Negate(a)

NegateSpec == NegateInit /\ [][NegateNext]_vars

(***************************************************************************)
(* Reading a Predicate and the history of a translation.                   *)
(***************************************************************************)
RECURSIVE Unbound(_, _)
\* The variables that occur in pred outside every Exists or Lambda that
\* lists them and outside bound.
Unbound(pred, bound) ==
    CASE pred.kind = "Leaf" -> Range(pred.apply_to) \ bound
      [] pred.kind = "Not" -> Unbound(pred.pred, bound)
      [] pred.kind = "And" ->
           UNION {Unbound(pred.preds[i], bound) : i \in 1..Len(pred.preds)}
      [] pred.kind = "Exists" ->
           Unbound(pred.pred, bound \cup Range(pred.vars))
      [] pred.kind = "Lambda" ->
           Unbound(pred.pred, bound \cup Range(pred.vars))
      [] pred.kind = "Equivalent" ->
           ({pred.var} \ bound) \cup Unbound(pred.pred, bound)

RECURSIVE Kinds(_)
\* The variants that occur in pred.
Kinds(pred) ==
    CASE pred.kind = "Leaf" -> {"Leaf"}
      [] pred.kind = "And" ->
           {"And"} \cup UNION {Kinds(pred.preds[i]) :
                                 i \in 1..Len(pred.preds)}
      [] OTHER -> {pred.kind} \cup Kinds(pred.pred)

Done == phase = "done"
Log == out.log
Events(kind) == {k \in 1..Len(Log) : Log[k].ev = kind}
LeafEvents == Events("leaf")

RECURSIVE Declared(_, _)
\* The ids declared for w by Explicit nodes still active after the first k
\* events of the history, innermost last.
Declared(w, k) ==
    IF k = 0 THEN <<>>
    ELSE LET d == Declared(w, k - 1)
             e == Log[k]
         IN  IF e.ev = "push" /\ e.word = w THEN Append(d, e.id)
             ELSE IF e.ev = "pop" /\ e.word = w /\ d # <<>> THEN ButLast(d)
             ELSE d

\* No Explicit node declaring the word of leaf event k is active at k.
Unshadowed(k) == Declared(Log[k].word, k - 1) = <<>>

\* No declaration of w begins or ends between events a and b.
Quiet(w, a, b) ==
    \A m \in (a + 1)..(b - 1) :
       ~(Log[m].ev \in {"push", "pop"} /\ Log[m].word = w)

(***************************************************************************)
(* C1: every Var that occurs in the Predicate returned by to_expr is bound *)
(* by an enclosing Exists or Lambda or is in the returned free-variable    *)
(* list.                                                                   *)
(***************************************************************************)
C1_ClosureSoundness ==
    (Done /\ out.ok) => Unbound(out.pred, Range(out.free)) = {}

(***************************************************************************)
(* C2: two leaves with the same spelling translated while no Explicit node *)
(* declaring it is active receive the same identity-id; leaves with        *)
(* different spellings receive different ids.                              *)
(***************************************************************************)
C2_SameSpellingSameId ==
    Done =>
      \A i, j \in LeafEvents :
         /\ (Log[i].word = Log[j].word /\ Unshadowed(i) /\ Unshadowed(j))
               => Log[i].id = Log[j].id
         /\ Log[i].word # Log[j].word => Log[i].id # Log[j].id

\* Two unshadowed leaves of one spelling with a declaration of that
\* spelling opened and closed between them, and a leaf of another spelling.
C2_Witness ==
    /\ Done /\ out.ok
    /\ \E i, j \in LeafEvents :
          /\ i < j /\ Log[i].word = Log[j].word
          /\ Unshadowed(i) /\ Unshadowed(j)
          /\ ~Quiet(Log[i].word, i, j)
    /\ \E i, j \in LeafEvents : Log[i].word # Log[j].word

(***************************************************************************)
(* C3: a leaf translated while an Explicit node declaring its spelling is  *)
(* active gets the id freshly allocated for the innermost such             *)
(* declaration, which differs from the ids the spelling had outside; a     *)
(* leaf translated after the node has finished gets again the id the       *)
(* spelling had immediately before the node was entered.                   *)
(***************************************************************************)
C3_Shadowing ==
    Done =>
      /\ \A p \in Events("push") : Log[p].id \notin Range(Log[p].below)
      /\ \A k \in LeafEvents :
            LET d == Declared(Log[k].word, k - 1)
            IN  d # <<>> => Log[k].id = Last(d)
      /\ \A x \in Events("exit"), k \in LeafEvents :
            \A i \in 1..Len(Log[x].names) :
               LET before == Log[Log[x].entered].stacks[i]
               IN  (/\ x < k
                    /\ Log[x].names[i].word = Log[k].word
                    /\ Quiet(Log[k].word, x, k)
                    /\ before # <<>>)
                      => Log[k].id = Last(before)

\* A spelling with an outer id is declared by a node, read inside the
\* node, and read again after the node has finished.
C3_Witness ==
    /\ Done /\ out.ok
    /\ \E x \in Events("exit"), k1, k2 \in LeafEvents :
          /\ Log[x].entered < k1 /\ k1 < x /\ x < k2
          /\ Log[k1].word = Log[k2].word
          /\ \E i \in 1..Len(Log[x].names) :
                /\ Log[x].names[i].word = Log[k1].word
                /\ Log[Log[x].entered].stacks[i] # <<>>
          /\ Quiet(Log[k2].word, x, k2)
          /\ Log[k1].id # Log[k2].id

(***************************************************************************)
(* C4: to_expr is total: it returns for every PredicateTree and never      *)
(* aborts; the identity lookup of a Leaf always finds an id.               *)
(***************************************************************************)
C4_Total == Done => out.ok

(***************************************************************************)
(* C5: for every Explicit node and each name it declares, the depth of the *)
(* name's identity stack when the node returns equals its depth when the   *)
(* node was entered, and every node entered by a finished translation has  *)
(* returned.                                                               *)
(***************************************************************************)
C5_StackDiscipline ==
    Done =>
      /\ \A x \in Events("exit") :
            \A i \in 1..Len(Log[x].names) :
               Len(Log[x].stacks[i]) = Len(Log[Log[x].entered].stacks[i])
      /\ out.ok =>
            \A e \in Events("enter") :
               \E x \in Events("exit") : Log[x].entered = e

\* A node that declares one name twice over an outer id of that name has
\* returned.
C5_Witness ==
    /\ Done /\ out.ok
    /\ \E x \in Events("exit") :
          /\ Len(Log[x].names) = 2
          /\ Log[x].names[1].word = Log[x].names[2].word
          /\ Log[x].stacks[1] # <<>>

RECURSIVE Subpreds(_)
\* pred and every Predicate inside it.
Subpreds(pred) ==
    {pred} \cup
    CASE pred.kind = "Leaf" -> {}
      [] pred.kind = "And" ->
           UNION {Subpreds(pred.preds[i]) : i \in 1..Len(pred.preds)}
      [] OTHER -> Subpreds(pred.pred)

(***************************************************************************)
(* C7: for an Equivalence-mode child, under Transparent exposure the       *)
(* variables the child leaves free are added to the enclosing node's       *)
(* current scope and the Equivalent's body is not wrapped in a Lambda;     *)
(* under Standard or Modified exposure a child that leaves variables free  *)
(* gets a Lambda over exactly those variables as the Equivalent's body and *)
(* none of them is added to the enclosing scope.                           *)
(***************************************************************************)
C7_ExposureMonotonicity ==
    Done =>
      \A k \in Events("equiv") :
         LET e == Log[k]
         IN  /\ e.exposure = "Transparent" =>
                  /\ e.assertion = PEquivalent(e.var, e.child)
                  /\ e.child.kind # "Lambda"
                  /\ Range(e.free) \subseteq Range(e.scope)
                  /\ Range(e.free) \cap Range(e.before) = {}
             /\ (e.exposure \in {"Standard", "Modified"} /\ e.free # <<>>) =>
                  /\ e.assertion = PEquivalent(e.var, PLambda(e.free, e.child))
                  /\ Range(e.free) \cap Range(e.scope) = {}
                  /\ e.scope = e.before
             /\ out.ok => e.assertion \in Subpreds(out.pred)

\* A Transparent node has an Equivalence-mode child that leaves variables
\* free.
C7_Witness ==
    /\ Done /\ out.ok
    /\ \E k \in Events("equiv") :
          Log[k].exposure = "Transparent" /\ Log[k].free # <<>>

(***************************************************************************)
(* The one-link scenarios: a head word made a Standard Binding by          *)
(* to_binding, with one dependent attached at place p by a linker of the   *)
(* given mode (parser.rs:257-272 pads the places below p with empty sets). *)
(***************************************************************************)
OneLink(tree, chain_with) ==
    /\ tree.kind = "Binding"
    /\ tree.root.kind = "Leaf"
    /\ ~tree.negated
    /\ tree.exposure = Standard
    /\ tree.and = {}
    /\ tree.sharers # <<>>
    /\ \A k \in 1..(Len(tree.sharers) - 1) : tree.sharers[k] = {}
    /\ \E d \in Last(tree.sharers) :
          Last(tree.sharers) = {d} /\ d.chaining = chain_with
Dependent(tree) == (CHOOSE d \in Last(tree.sharers) : TRUE).tree
OneLinkSharing ==
    /\ Done
    /\ OneLink(stack[1], Sharing)
    /\ Dependent(stack[1]).kind = "Leaf"
OneLinkEquivalence == Done /\ OneLink(stack[1], Equivalence)

(***************************************************************************)
(* C8 as stated: the one-link Sharing tree translates to                   *)
(* Exists{v}. (head(...v...) /\ dependent(v)), v bound by the Exists.      *)
(***************************************************************************)
C8_SharingBoundByExists ==
    OneLinkSharing =>
      /\ out.pred.kind = "Exists"
      /\ Len(out.pred.vars) = 1
      /\ LET v == out.pred.vars[1]
             b == out.pred.pred
         IN  /\ b.kind = "And" /\ Len(b.preds) = 2
             /\ b.preds[1].kind = "Leaf"
             /\ b.preds[1].word = stack[1].root.word
             /\ v \in Range(b.preds[1].apply_to)
             /\ b.preds[2].kind = "Leaf"
             /\ b.preds[2].word = Dependent(stack[1]).word
             /\ b.preds[2].apply_to = <<v>>

(***************************************************************************)
(* C8 amended: the one-link Sharing tree translates to the conjunction     *)
(* head(...v...) /\ dependent(v) with no Exists node: v is the head's      *)
(* argument at the linked place and the dependent's only argument, and v   *)
(* is an element of the returned free-variable list, which is the head's   *)
(* argument list.                                                          *)
(***************************************************************************)
C8_SharingFreeVariable ==
    OneLinkSharing =>
      LET p == Len(stack[1].sharers)
          q == out.pred
      IN  /\ out.ok
          /\ q.kind = "And" /\ Len(q.preds) = 2
          /\ q.preds[1].kind = "Leaf"
          /\ q.preds[1].word = stack[1].root.word
          /\ q.preds[1].apply_to = out.free
          /\ Len(out.free) = p
          /\ Cardinality(Range(out.free)) = p
          /\ q.preds[2].kind = "Leaf"
          /\ q.preds[2].word = Dependent(stack[1]).word
          /\ q.preds[2].apply_to = <<out.free[p]>>
          /\ "Exists" \notin Kinds(q)

\* A head with the dependent linked at place 1 has been translated.
C8_Witness ==
    /\ OneLinkSharing
    /\ Len(stack[1].sharers) = 2
    /\ stack[1].root.word # Dependent(stack[1]).word

(***************************************************************************)
(* C9: the one-link Equivalence tree translates to a formula containing    *)
(* Equivalent{var, pred} where var is the head Leaf's argument at the      *)
(* linked place and pred is the dependent's translation: a bare Leaf with  *)
(* an empty argument list for a bare word, wrapped in a Lambda over its    *)
(* free variables when it has any.                                         *)
(***************************************************************************)
C9_EquivalenceLink ==
    (OneLinkEquivalence /\ out.ok) =>
      LET p == Len(stack[1].sharers)
          dep == Dependent(stack[1])
          q == out.pred
          equivs == Events("equiv")
          e == Log[CHOOSE k \in equivs : \A m \in equivs : m <= k]
      IN  /\ q.kind = "And" /\ Len(q.preds) = 2
          /\ q.preds[1].kind = "Leaf"
          /\ q.preds[1].word = stack[1].root.word
          /\ Len(q.preds[1].apply_to) = p
          /\ q.preds[2].kind = "Equivalent"
          /\ q.preds[2].var = q.preds[1].apply_to[p]
          /\ dep.kind = "Leaf" =>
                /\ q.preds[2].pred.kind = "Leaf"
                /\ q.preds[2].pred.word = dep.word
                /\ q.preds[2].pred.apply_to = <<>>
          /\ e.free = <<>> => q.preds[2].pred = e.child
          /\ e.free # <<>> => q.preds[2].pred = PLambda(e.free, e.child)
          /\ (dep.kind = "Binding" /\ dep.sharers # <<>>) =>
                /\ q.preds[2].pred.kind = "Lambda"
                /\ Unbound(q.preds[2].pred.pred, {})
                      \subseteq Range(q.preds[2].pred.vars)

\* The dependent is a Binding that leaves a variable free.
C9_Witness ==
    /\ OneLinkEquivalence /\ out.ok
    /\ Dependent(stack[1]).kind = "Binding"
    /\ Dependent(stack[1]).sharers # <<>>
    /\ Dependent(stack[1]).root.kind = "Leaf"

(***************************************************************************)
(* The Explicit nodes with a Leaf root whose root has been translated: the *)
(* enter event e is followed by one push event per declared name, by the   *)
(* event of the root's call and then by the root's leaf event.             *)
(***************************************************************************)
ExplicitRoots ==
    {e \in Events("enter") :
        /\ Log[e].root_leaf
        /\ e + Len(Log[e].names) + 2 <= Len(Log)
        /\ Log[e + Len(Log[e].names) + 1].ev = "root"
        /\ Log[e + Len(Log[e].names) + 2].ev = "leaf"}
RootLeaf(e) == Log[e + Len(Log[e].names) + 2]

C11_ResultAssembly ==
    (Done /\ out.ok) =>
      /\ stack[1].kind = "Leaf" =>
            /\ out.pred = PLeaf(stack[1].word, 0, <<>>)
            /\ out.free = <<>>
            /\ out.scope = <<out.pred>>
      /\ Len(out.scope) = 1 => out.pred = out.scope[1]
      /\ Len(out.scope) # 1 => out.pred = PAnd(out.scope)
      /\ out.scope # <<>>

\* A single word has been translated.
C11_Witness == Done /\ out.ok /\ stack[1].kind = "Leaf"

(***************************************************************************)
(* The content-root words of a lexed text.                                 *)
(***************************************************************************)
LexedText == phase = "lexed" /\ lexed.ok
Roots == {k \in 1..Len(lexed.words) : lexed.words[k].class.kind = "Predicate"}
\* The ChainingBehavior the final phoneme of spelling w stands for.
FinalPhonemeChaining(w) ==
    IF w[Len(w)] = "i" THEN ChainingBehavior(1, Equivalence)
    ELSE IF w[Len(w)] \in VOWELS THEN ChainingBehavior(1, Sharing)
    ELSE ChainingBehavior(0, Sharing)
\* w is an initial consonant pair and one vowel.
PairAndVowel(w) == Len(w) = 3 /\ w[2] \notin VOWELS

C13_RoundTrip ==
    phase = "relexed" => (relexed.ok /\ relexed.words = lexed.words)

(***************************************************************************)
(* The attachments of the production just reduced, in sentence order, and  *)
(* the place each one resolves to when the resolution starts from place 0  *)
(* at the first attachment.                                                *)
(***************************************************************************)
Reduced == parse.phase \in {"reduced", "translated"}
Attachments == Flatten(parse.b)
RECURSIVE LastPlace(_, _)
LastPlace(items, k) ==
    IF k = 0 THEN 0
    ELSE CASE LinkerBinding(items[k].pf).var.kind = "Var" ->
                 LinkerBinding(items[k].pf).var.var
           [] LinkerBinding(items[k].pf).var.kind = "Next" ->
                 LastPlace(items, k - 1) + 1
           [] OTHER -> LastPlace(items, k - 1)
Attached(k) ==
    [chaining |-> LinkerBinding(Attachments[k].pf).chain_with,
     tree |-> GroupChild(Attachments[k].args, Attachments[k].p)]

(***************************************************************************)
(* C14: an attachment with an explicit place p goes into sharers[p] with   *)
(* the linker's mode; "same" resolves to the place of the preceding        *)
(* attachment (0 when there is none), "next" to that place plus one; an    *)
(* attachment without a place goes into the and set and leaves the last    *)
(* resolved place unchanged.                                               *)
(***************************************************************************)
C14_AttachmentPlaces ==
    (Reduced /\ parse.b # <<>>) =>
       \A k \in 1..Len(Attachments) :
          IF LinkerBinding(Attachments[k].pf).var.kind = "None"
          THEN Attached(k).tree \in parse.tree.and
          ELSE /\ LastPlace(Attachments, k) < Len(parse.tree.sharers)
               /\ Attached(k) \in
                     parse.tree.sharers[LastPlace(Attachments, k) + 1]

(***************************************************************************)
(* C15: a trailing tree is inserted into sharers[c.place] with mode        *)
(* c.mode, c being the chaining behavior of the head element -- that of    *)
(* the head word, or the one an exposure marker in front of the head       *)
(* installed -- and the and set holds only what the element brought and    *)
(* the children of the attachments without a place.                        *)
(***************************************************************************)
HeadChaining ==
    IF parse.l.kind = "Binding" THEN parse.l.chaining
    ELSE tree_chaining_behavior(parse.l)
PlacelessChildren ==
    {Attached(k).tree : k \in {j \in 1..Len(Attachments) :
        LinkerBinding(Attachments[j].pf).var.kind = "None"}}
C15_TrailingTree ==
    (Reduced /\ parse.r.some) =>
       /\ parse.tree.kind = "Binding"
       /\ HeadChaining.var < Len(parse.tree.sharers)
       /\ [chaining |-> HeadChaining.chain_with, tree |-> parse.r.val]
             \in parse.tree.sharers[HeadChaining.var + 1]
       /\ parse.tree.and = to_binding(parse.l).and \cup PlacelessChildren

\* A production with a trailing tree whose head carries an exposure marker
\* that installs chaining place 1, which is not the place of the head word.
C15_Witness ==
    /\ Reduced /\ parse.r.some
    /\ parse.l.kind = "Binding"
    /\ parse.l.chaining # tree_chaining_behavior(parse.l.root)
    /\ parse.l.chaining.var = 1

(***************************************************************************)
(* C16: the child of an attachment group with a named-argument list is     *)
(* attached as a Binding whose exposure is Explicit of that list, in the   *)
(* declared order and each name with its mode, and whose chaining, root,   *)
(* negation, sharers and and are those of the child before the override;   *)
(* the child of a group without a list is attached unchanged.              *)
(***************************************************************************)
AttachedTrees ==
    parse.tree.and \cup
    UNION {{c.tree : c \in parse.tree.sharers[q]} :
             q \in 1..Len(parse.tree.sharers)}
C16_ExplicitList ==
    (Reduced /\ parse.b # <<>>) =>
       \A k \in 1..Len(Attachments) :
          \E c \in AttachedTrees :
             IF Attachments[k].args.some
             THEN /\ c.kind = "Binding"
                  /\ c.exposure = Explicit(Attachments[k].args.val)
                  /\ c.chaining = to_binding(Attachments[k].p).chaining
                  /\ c.root = to_binding(Attachments[k].p).root
                  /\ c.negation = to_binding(Attachments[k].p).negation
                  /\ c.sharers = to_binding(Attachments[k].p).sharers
                  /\ c.and = to_binding(Attachments[k].p).and
             ELSE c = Attachments[k].p

\* A group with a list whose child is a Binding that had an exposure of
\* its own from an exposure marker.
C16_Witness ==
    /\ Reduced
    /\ \E k \in 1..Len(Attachments) :
          /\ Attachments[k].args.some
          /\ Attachments[k].p.kind = "Binding"
          /\ Attachments[k].p.exposure # Standard

(***************************************************************************)
(* C17: an element followed by no attachment group and no trailing tree is *)
(* returned itself with the parsed negation applied, with no Binding       *)
(* around it: a bare word stays a Leaf or becomes the negation of that     *)
(* Leaf.  For an element that is not a Binding already, the result is a    *)
(* Binding exactly when a group or a trailing tree is present or an        *)
(* exposure marker was applied to the element.                             *)
(***************************************************************************)
NoAttachment == parse.b = <<>> /\ ~parse.r.some
C17_DegenerateBinding ==
    Reduced =>
       /\ NoAttachment =>
             parse.tree = negate(parse.l, MarkerNegation(parse.bi, parse.zi))
       /\ (NoAttachment /\ ~parse.s.some) =>
             parse.tree = negate(parse.p, MarkerNegation(parse.bi, parse.zi))
       /\ (NoAttachment /\ ~parse.s.some /\ parse.p.kind = "Leaf") =>
             \/ parse.tree = parse.p
             \/ /\ parse.tree.kind = "Negation"
                /\ parse.tree.pred = parse.p
                /\ parse.tree.negation # "None"
       /\ parse.p.kind # "Binding" =>
             (parse.tree.kind = "Binding"
                <=> (parse.b # <<>> \/ parse.r.some \/ parse.s.some))

\* A negated bare word was reduced.
C17_Witness ==
    /\ Reduced /\ NoAttachment /\ ~parse.s.some
    /\ parse.p.kind = "Leaf"
    /\ parse.tree.kind = "Negation"

(***************************************************************************)
(* C18: when a Binding node is translated for a Sharing caller that        *)
(* supplies variable x, x is at position chain_place of the argument list  *)
(* handed to the node's root, whatever the number of sharer places of the  *)
(* node; when the caller supplies no variable, a fresh variable takes that *)
(* position.                                                               *)
(***************************************************************************)
RootCalls == {Log[k] : k \in Events("root")}
C18_ChainVariable ==
    (Done /\ out.ok) =>
       \A e \in RootCalls :
          e.caller = Sharing =>
             /\ ChainPlace(e.exposure) < Len(e.apply_to)
             /\ e.apply_to[ChainPlace(e.exposure) + 1] =
                   (IF e.supplied # <<>> THEN e.supplied[1] ELSE e.fresh)

(***************************************************************************)
(* C19: under Standard exposure a Sharing caller shares only the variable  *)
(* of place 0 with the node, and every other place variable of the node is *)
(* existentially quantified at the node; under Standard exposure an        *)
(* Equivalence caller has every place variable of the node in its own      *)
(* free-variable list, or supplied it itself; under Transparent exposure   *)
(* every place variable of the node is visible to the caller, whatever the *)
(* caller's chaining mode.                                                 *)
(***************************************************************************)
PlaceVars(e) == {e.apply_to[k] : k \in 1..Min2(e.places, Len(e.apply_to))}
VisibleToCaller(e) == Range(e.new_vars) \cup Range(e.supplied)
C19_ExposedPlaces ==
    out.ok =>
       \A e \in RootCalls :
          /\ (e.exposure = Standard /\ e.caller = Sharing) =>
                \A k \in 1..Min2(e.places, Len(e.apply_to)) :
                   IF k = 1 THEN e.apply_to[k] \in Range(e.supplied)
                   ELSE /\ e.apply_to[k] \in Range(e.close_over)
                        /\ e.apply_to[k] \notin VisibleToCaller(e)
          /\ (e.exposure = Standard /\ e.caller = Equivalence) =>
                PlaceVars(e) \subseteq VisibleToCaller(e)
          /\ e.exposure = Transparent =>
                PlaceVars(e) \subseteq VisibleToCaller(e)

(***************************************************************************)
(* C20: a tree of a node's and set is translated with an empty argument    *)
(* list and lists of its own; its conjunct binds the variables it left     *)
(* free in an Exists around it, and no variable of the conjunct occurs in  *)
(* the node's root, in its place children, in another sibling or in the    *)
(* caller's free-variable list.                                            *)
(***************************************************************************)
RECURSIVE Mentions(_)
\* The variables pred mentions, as an argument, as the var of an
\* Equivalent or in the list of an Exists or Lambda.
Mentions(pred) ==
    CASE pred.kind = "Leaf" -> Range(pred.apply_to)
      [] pred.kind = "Not" -> Mentions(pred.pred)
      [] pred.kind = "And" ->
           UNION {Mentions(pred.preds[i]) : i \in 1..Len(pred.preds)}
      [] pred.kind \in {"Exists", "Lambda"} ->
           Range(pred.vars) \cup Mentions(pred.pred)
      [] pred.kind = "Equivalent" -> {pred.var} \cup Mentions(pred.pred)

RECURSIVE Outside(_, _)
\* The variables pred mentions outside its sub-predicate inner.
Outside(pred, inner) ==
    IF pred = inner THEN {}
    ELSE CASE pred.kind = "Leaf" -> Range(pred.apply_to)
           [] pred.kind = "Not" -> Outside(pred.pred, inner)
           [] pred.kind = "And" ->
                UNION {Outside(pred.preds[i], inner) :
                         i \in 1..Len(pred.preds)}
           [] pred.kind \in {"Exists", "Lambda"} ->
                Range(pred.vars) \cup Outside(pred.pred, inner)
           [] pred.kind = "Equivalent" ->
                {pred.var} \cup Outside(pred.pred, inner)

Siblings == {Log[k] : k \in Events("sibling")}
C20_SiblingIndependence ==
    (Done /\ out.ok) =>
       \A e \in Siblings :
          /\ e.conjunct \in Subpreds(out.pred)
          /\ e.conjunct.kind = "Leaf" => e.conjunct.apply_to = <<>>
          /\ e.free # <<>> =>
                /\ e.conjunct.kind = "Exists"
                /\ e.conjunct.vars = e.free
          /\ Mentions(e.conjunct) \cap Outside(out.pred, e.conjunct) = {}
          /\ Mentions(e.conjunct) \cap Range(out.free) = {}

\* A node with a place of its own and a sibling that left a variable free.
C20_Witness ==
    /\ Done /\ out.ok
    /\ out.free # <<>>
    /\ \E e \in Siblings : e.free # <<>>

(***************************************************************************)
(* The events of the history that belong to the node closed by event c,    *)
(* and the predicates they stand for.  The node's own names are declared   *)
(* by the push events right after its enter event.                         *)
(***************************************************************************)
Closes == Events("close")
Within(c) == Log[c].entered..(c - 1)
OwnPushes(c) ==
    IF Log[c].exposure.kind = "Explicit"
    THEN (Log[c].entered + 1)..(Log[c].entered + Len(Log[c].exposure.vec))
    ELSE {}
Emitted(k) ==
    CASE Log[k].ev = "leaf" ->
           {PLeaf(Log[k].word, Log[k].id, Log[k].apply_to)}
      [] Log[k].ev = "push" ->
           {NameFact(Log[k].word,
                     Log[k - Log[k].index - 1].names[Log[k].index + 1]
                        .chain_with,
                     Log[k].id, Log[k].var)}
      [] Log[k].ev = "equiv" -> {Log[k].assertion}
      [] Log[k].ev = "sibling" -> {Log[k].conjunct}
      [] OTHER -> {}
NotIffNegated(c) ==
    /\ Log[c].negated => (Log[c].appended /\ Log[c].pred.kind = "Not"
                            /\ Log[c].pred \in Subpreds(out.pred))
    /\ (~Log[c].negated /\ Log[c].appended) => Log[c].pred.kind # "Not"

(***************************************************************************)
(* C21 as stated: a Binding node contributes a Not to its caller's scope   *)
(* exactly when it is negated, and every predicate the node emits -- for   *)
(* its Explicit names, its root, its place children and its siblings --    *)
(* lies inside that Not.                                                   *)
(***************************************************************************)
C21_NotEnclosesNode ==
    (Done /\ out.ok) =>
       \A c \in Closes :
          /\ NotIffNegated(c)
          /\ Log[c].negated =>
                \A k \in Within(c) :
                   Emitted(k) \subseteq Subpreds(Log[c].pred)

(***************************************************************************)
(* C21 amended: a Binding node contributes a Not to its caller's scope     *)
(* exactly when it is negated, and the Not encloses the root's predicates, *)
(* the place children's predicates and the siblings' conjuncts; the facts  *)
(* or Equivalent assertions for the node's own Explicit names are appended *)
(* to the caller's scope, outside the Not.                                 *)
(***************************************************************************)
C21_NotEnclosesBody ==
    (Done /\ out.ok) =>
       \A c \in Closes :
          /\ NotIffNegated(c)
          /\ Log[c].negated =>
                /\ \A k \in Within(c) \ OwnPushes(c) :
                      Emitted(k) \subseteq Subpreds(Log[c].pred)
                /\ \A k \in OwnPushes(c) :
                      /\ Emitted(k) \cap Subpreds(Log[c].pred) = {}
                      /\ Emitted(k) \subseteq Subpreds(out.pred)

\* A negated node with a declared name, a place child and a sibling.
C21_Witness ==
    /\ Done /\ out.ok
    /\ \E c \in Closes :
          /\ Log[c].negated
          /\ OwnPushes(c) # {}
          /\ \E k \in Within(c) : Log[k].ev = "sibling"
          /\ Cardinality({k \in Within(c) : Log[k].ev = "leaf"}) >= 3

(***************************************************************************)
(* Reading the order of the calls a node makes from the history.  A call   *)
(* on a Leaf leaves one leaf event; a call on a Binding leaves the events  *)
(* from its first one to its close event; the equiv event of an            *)
(* Equivalence child follows the child's call.                             *)
(***************************************************************************)
SkipTree(p) ==
    IF Log[p].ev = "leaf" THEN p + 1
    ELSE 1 + CHOOSE c \in Closes : Log[c].entered = p
SkipChild(p) ==
    IF SkipTree(p) <= Len(Log) /\ Log[SkipTree(p)].ev = "equiv"
    THEN SkipTree(p) + 1
    ELSE SkipTree(p)
\* Event p opens the call on tree t in mode chaining with arguments args.
StartsTree(p, t, chaining, args) ==
    /\ p >= 1 /\ p <= Len(Log)
    /\ IF t.kind = "Leaf"
       THEN Log[p].ev = "leaf" /\ Log[p].word = t.word
               /\ Log[p].apply_to = args
       ELSE IF t.exposure.kind = "Explicit"
       THEN Log[p].ev = "enter" /\ Log[p].names = t.exposure.vec
               /\ Log[p].supplied = args /\ Log[p].caller = chaining
       ELSE Log[p].ev = "root" /\ Log[p].node = t
               /\ Log[p].supplied = args /\ Log[p].caller = chaining
StartsChild(p, set, var) ==
    \E c \in set :
       StartsTree(p, c.tree, c.chaining,
                  IF c.chaining = Sharing THEN <<var>> ELSE <<>>)
RECURSIVE PlacesUpTo(_, _)
\* The places 1..n of node t, each as often as it has children.
PlacesUpTo(t, n) ==
    IF n = 0 THEN <<>>
    ELSE PlacesUpTo(t, n - 1) \o [j \in 1..Cardinality(t.sharers[n]) |-> n]
Backwards(seq) == [j \in 1..Len(seq) |-> seq[Len(seq) + 1 - j]]
RECURSIVE ChildrenFrom(_, _, _, _)
\* The position after the calls on the children of the places ks of node
\* t, made in that order from event p on; 0 when the history has other
\* calls there.
ChildrenFrom(p, t, args, ks) ==
    IF ks = <<>> THEN p
    ELSE IF ~StartsChild(p, t.sharers[ks[1]], args[ks[1]]) THEN 0
    ELSE ChildrenFrom(SkipChild(p), t, args, Tail(ks))
Served(r) ==
    PlacesUpTo(Log[r].node, Min2(Log[r].places, Len(Log[r].apply_to)))

(***************************************************************************)
(* C22 as stated: inside a Binding node the children attached to places    *)
(* are translated from the highest place to the lowest and the root is     *)
(* translated after them.                                                  *)
(***************************************************************************)
C22_RootLast ==
    (Done /\ out.ok) =>
       \A r \in Events("root") :
          LET q == ChildrenFrom(r + 1, Log[r].node, Log[r].apply_to,
                                Backwards(Served(r)))
          IN  /\ q # 0
              /\ StartsTree(q, Log[r].node.root, Equivalence,
                            Log[r].apply_to)

(***************************************************************************)
(* C22 amended: inside a Binding node the root is translated first and the *)
(* children attached to places are translated after it, from the lowest    *)
(* place to the highest.                                                   *)
(***************************************************************************)
C22_RootFirst ==
    (Done /\ out.ok) =>
       \A r \in Events("root") :
          /\ StartsTree(r + 1, Log[r].node.root, Equivalence, Log[r].apply_to)
          /\ ChildrenFrom(SkipTree(r + 1), Log[r].node, Log[r].apply_to,
                          Served(r)) # 0

\* A node with children at two places, one of them a Binding.
C22_Witness ==
    /\ Done /\ out.ok
    /\ \E r \in Events("root") :
          /\ Len(Served(r)) >= 2
          /\ Served(r)[1] # Served(r)[Len(Served(r))]
          /\ \E k \in 1..Log[r].places :
                \E c \in Log[r].node.sharers[k] : c.tree.kind = "Binding"

(***************************************************************************)
(* C23: negations compose by exclusive-or per kind.  Whenever              *)
(* t.negate(a) has been computed, negating the result by any b gives       *)
(* t.negate(a XOR b), where XOR toggles the short-scope and the long-scope *)
(* flag independently; t.negate(None) is t; and negating the result by a   *)
(* again gives t back.  C23_NegateXor states it of every PredicateTree t,  *)
(* C23_NegateXorNormal of the trees in normal form: a Leaf, a Binding, and *)
(* a Negation node whose negation is not None and whose pred is a Leaf.    *)
(***************************************************************************)
Xor(a, b) ==
    IF (a \in {"Short", "Both"}) # (b \in {"Short", "Both"})
    THEN (IF (a \in {"Long", "Both"}) # (b \in {"Long", "Both"})
          THEN "Both" ELSE "Short")
    ELSE (IF (a \in {"Long", "Both"}) # (b \in {"Long", "Both"})
          THEN "Long" ELSE "None")

Negated == phase = "negated"

NormalForm(t) ==
    \/ t.kind \in {"Leaf", "Binding"}
    \/ t.kind = "Negation" /\ t.negation # "None" /\ t.pred.kind = "Leaf"

XorLaw(t, a, result) ==
    /\ \A b \in Negations : negate(result, b) = negate(t, Xor(a, b))
    /\ a = "None" => result = t
    /\ negate(result, a) = t

C23_NegateXor ==
    Negated => XorLaw(pool.val.t, pool.val.a, stack[1])

C23_NegateXorNormal ==
    Negated /\ NormalForm(pool.val.t) =>
        /\ XorLaw(pool.val.t, pool.val.a, stack[1])
        /\ NormalForm(stack[1])

C23_Witness ==
    /\ Negated
    /\ pool.val.a = "Short"
    /\ pool.val.t.kind = "Negation"
    /\ pool.val.t.negation = "Long"
    /\ pool.val.t.pred.kind = "Leaf"
    /\ stack[1] = NegationNode("Both", pool.val.t.pred)

(***************************************************************************)
(* C24: unique binding of variables.  Within one to_expr call the          *)
(* variables a Binding node allocates are none of those allocated before   *)
(* it, and in the result every variable stands in the variable list of at  *)
(* most one binder, and at most once in it, the binders being every        *)
(* Exists, every Lambda and the returned list of free variables.           *)
(***************************************************************************)
RECURSIVE Quantified(_)
\* The variable lists of the Exists and Lambda nodes of pred, one after the
\* other.
Quantified(pred) ==
    CASE pred.kind = "Leaf" -> <<>>
      [] pred.kind = "And" ->
           Flatten([i \in 1..Len(pred.preds) |-> Quantified(pred.preds[i])])
      [] pred.kind \in {"Exists", "Lambda"} ->
           pred.vars \o Quantified(pred.pred)
      [] OTHER -> Quantified(pred.pred)

NoRepeat(seq) == \A i, j \in 1..Len(seq) : seq[i] = seq[j] => i = j

\* The variables the node of root event k allocated before its root was
\* translated.
AllocatedAt(k) == Log[k].fresh..(Log[k].next - 1)

C24_UniqueBinding ==
    (Done /\ out.ok) =>
       /\ NoRepeat(Quantified(out.pred) \o out.free)
       /\ \A k \in Events("root") :
             /\ AllocatedAt(k) \subseteq 0..(out.max_var - 1)
             /\ \A j \in Events("root") :
                   j # k => AllocatedAt(j) \cap AllocatedAt(k) = {}

C24_Witness ==
    /\ Done
    /\ out.ok
    /\ out.free # <<>>
    /\ \E p \in Subpreds(out.pred) : p.kind = "Exists" /\ Len(p.vars) >= 2
    /\ \E j, k \in Events("root") :
          j # k /\ AllocatedAt(j) # {} /\ AllocatedAt(k) # {}

(***************************************************************************)
(* C6: a run of k identical negation markers in front of an element yields *)
(* the same tree and the same translated formula as no marker when k is    *)
(* even and as exactly one marker when k is odd; a doubled zi around a     *)
(* leaf translates to the formula of the bare leaf, with no Not node.      *)
(***************************************************************************)
Parity(k) == IF k % 2 = 1 THEN 1 ELSE 0
Translated == parse.phase = "translated"
BareElement == parse.l.kind = "Leaf" /\ parse.b = <<>> /\ ~parse.r.some

C6_NegationParity ==
    Reduced =>
      LET one == BindingMap(Parity(parse.bi), Parity(parse.zi), parse.l,
                            parse.b, parse.r)
          bare == to_expr(parse.l)
      IN  /\ parse.tree = one
          /\ Translated => out = to_expr(Lower(one))
          /\ (BareElement /\ parse.bi % 2 = 0 /\ parse.zi % 2 = 0) =>
                /\ parse.tree = parse.l
                /\ Translated =>
                      /\ out = bare
                      /\ out.pred = PLeaf(parse.l.word, 0, <<>>)
                      /\ "Not" \notin Kinds(out.pred)

\* A doubled zi in front of a bare word has been parsed and translated.
C6_Witness ==
    /\ Translated
    /\ BareElement
    /\ parse.bi = 0
    /\ parse.zi = 2

====
